---- MODULE Spec2Model ----
(***************************************************************************)
(* Falling Frenzy: the frame loop of src/src/game.py (Game.run) with the   *)
(* score/combo tracker of src/src/utils.py and the entities of             *)
(* src/src/entities.py.                                                    *)
(*                                                                         *)
(* Representation of the floats of the source:                             *)
(*   - times are integer milliseconds (dt is clock.tick(FPS) / 1000.0, and *)
(*     the timers subtract dt * 1000);                                     *)
(*   - score multipliers are kept in halves (1.0 -> 2, 1.5 -> 3, ...);     *)
(*   - speeds are kept in thousandths of a pixel per reference frame, and  *)
(*     object_speed with the rounding error of its float additions;        *)
(*   - positions are fixed point, Px units per pixel, so that              *)
(*     y += speed * speed_multiplier * dt * 60 is exact.                   *)
(***************************************************************************)
EXTENDS Integers, Sequences, FiniteSets, TLC

\* ------------------------------------------------------------ config.py
SCREEN_WIDTH == 1100
SCREEN_HEIGHT == 700
BASKET_WIDTH == 100
BASKET_HEIGHT == 20
BASKET_SPEED == 15
BASKET_Y_OFFSET == 10
OBJECT_WIDTH == 40
OBJECT_HEIGHT == 40
OBJECT_BASE_SPEED == 5
OBJECT_SPAWN_DELAY == 1000
OBJECT_MAX_SPEED == 15
SPAWN_POSITION_VARIANCE == 3
STARTING_SCORE == 10
MISS_PENALTY == 1
BOMB_DAMAGE == 3
COMBO_TIMEOUT == 2000
POWERUP_DURATION == 5000
DIFFICULTY_INCREASE_INTERVAL == 10
BUTTON_WIDTH == 200
BUTTON_HEIGHT == 60
SPAWN_DELAY_MIN == 500
SPAWN_DELAY_DECREASE == 50
PARTICLE_LIFETIME == 500
\* DEFAULT_VOLUME = 0.7 and MUSIC_VOLUME = 0.5, in tenths
DEFAULT_VOLUME == 7
MUSIC_VOLUME == 5

\* OBJECT_SPEED_INCREMENT = 0.1, in thousandths
OBJECT_SPEED_INCREMENT == 1000 \div 10

\* fixed-point units per pixel
Px == 1000 * 100

\* thousandths of a pixel per frame, for a speed given in pixels per frame
Milli(v) == v * 1000

Max(a, b) == IF a >= b THEN a ELSE b
Min(a, b) == IF a <= b THEN a ELSE b

\* GameState
MAIN_MENU == "main_menu"
PLAYING == "playing"
PAUSED == "paused"
GAME_OVER == "game_over"
STATISTICS == "statistics"
SETTINGS == "settings"
GameState == {MAIN_MENU, PLAYING, PAUSED, GAME_OVER, STATISTICS, SETTINGS}

\* ObjectType: name -> (points, is_bomb)
ObjectType == {"red", "green", "yellow", "purple", "bomb"}
Points(t) ==
    CASE t = "red" -> 1
      [] t = "green" -> 2
      [] t = "yellow" -> 3
      [] t = "purple" -> 5
      [] t = "bomb" -> -3
IsBomb(t) == t = "bomb"

\* PowerUpType; None is Python's None
PowerUpType == {"slow_mo", "double_points", "shield", "magnet"}
None == "none"

\* ------------------------------------------------------------ ScoreManager
\* A score manager is a record
\*   [score, high_score, combo, best_combo, combo_timer, is_combo_active].

\* ScoreManager.__init__, with the value _load_high_score returned
NewScoreManager(loaded) ==
    [score |-> STARTING_SCORE, high_score |-> loaded, combo |-> 0,
     best_combo |-> 0, combo_timer |-> 0, is_combo_active |-> FALSE]

\* a variant of ActualPoints that rounds to the nearest integer instead of
\* truncating
ActualPoints_rounded(points, mult2) == (points * mult2 + 1) \div 2

\* int(points * multiplier), the multiplier in halves: int() truncates
\* towards zero
ActualPoints(points, mult2) ==
    IF points * mult2 >= 0
    THEN (points * mult2) \div 2
    ELSE -((-(points * mult2)) \div 2)

\* ScoreManager.add_points; the return value is ActualPoints(points, mult2)
add_points(m, points, mult2) ==
    LET s == m.score + ActualPoints(points, mult2)
    IN [m EXCEPT !.score = s,
                 !.high_score = IF s > m.high_score THEN s ELSE m.high_score,
                 !.combo = m.combo + 1,
                 !.best_combo = Max(m.best_combo, m.combo + 1),
                 !.combo_timer = COMBO_TIMEOUT,
                 !.is_combo_active = TRUE]

\* a variant of reset_combo that leaves the countdown marked active
reset_combo_still_active(m) == [m EXCEPT !.combo = 0]

\* ScoreManager.reset_combo
reset_combo(m) == [m EXCEPT !.combo = 0, !.is_combo_active = FALSE]

\* a variant of subtract_points without the clamp at 0
subtract_points_unclamped(m, points) ==
    reset_combo([m EXCEPT !.score = m.score - points])

\* ScoreManager.subtract_points
subtract_points(m, points) ==
    reset_combo([m EXCEPT !.score = Max(0, m.score - points)])

\* a variant of update_combo_timer that runs the countdown down and never
\* resets the combo
update_combo_timer_running(m, dt) ==
    IF m.is_combo_active THEN [m EXCEPT !.combo_timer = m.combo_timer - dt] ELSE m

\* ScoreManager.update_combo_timer, dt in milliseconds
update_combo_timer(m, dt) ==
    IF m.is_combo_active
    THEN LET t == m.combo_timer - dt
             m1 == [m EXCEPT !.combo_timer = t]
         IN IF t <= 0 THEN reset_combo(m1) ELSE m1
    ELSE m

\* a variant of get_combo_multiplier whose steps are one combo late
get_combo_multiplier_late(m) ==
    IF m.combo <= 3 THEN 2
    ELSE IF m.combo <= 5 THEN 3
    ELSE IF m.combo <= 10 THEN 4
    ELSE 5

\* ScoreManager.get_combo_multiplier, in halves
get_combo_multiplier(m) ==
    IF m.combo < 3 THEN 2
    ELSE IF m.combo < 5 THEN 3
    ELSE IF m.combo < 10 THEN 4
    ELSE 5

\* a variant of reset that starts the high score afresh as well
reset_all(m) ==
    [m EXCEPT !.score = STARTING_SCORE, !.high_score = 0, !.combo = 0,
              !.best_combo = 0, !.combo_timer = 0, !.is_combo_active = FALSE]

\* ScoreManager.reset
reset(m) ==
    [m EXCEPT !.score = STARTING_SCORE, !.combo = 0, !.best_combo = 0,
              !.combo_timer = 0, !.is_combo_active = FALSE]

\* a variant of is_game_over that ends the game with one point left
is_game_over_early(m) == m.score <= 1

\* a variant of is_game_over that waits for a score below 0
is_game_over_below(m) == m.score < 0

\* ScoreManager.is_game_over
is_game_over(m) == m.score <= 0

\* ------------------------------------------------------------ entities.py
\* int() of a fixed-point coordinate, as pygame.Rect stores it (truncation)
IntPx(v) == IF v >= 0 THEN v \div Px ELSE -((-v) \div Px)

\* pygame.Rect(x, y, width, height) as the code builds it in get_rect
Rect(x, y, w, h) == [x |-> IntPx(x), y |-> IntPx(y), w |-> w, h |-> h]

\* a variant of colliderect that asks for a to hold b whole, as
\* pygame.Rect.contains does
colliderect_contains(a, b) ==
    /\ a.x <= b.x /\ b.x + b.w <= a.x + a.w
    /\ a.y <= b.y /\ b.y + b.h <= a.y + a.h

\* pygame.Rect.colliderect: overlap, touching edges excluded
colliderect(a, b) ==
    /\ a.x < b.x + b.w
    /\ a.y < b.y + b.h
    /\ a.x + a.w > b.x
    /\ a.y + a.h > b.y

\* FallingObject.__init__ / PowerUp.__init__: [x, y, type, speed]
FallingObject(x, y, object_type, speed) ==
    [x |-> x, y |-> y, type |-> object_type, speed |-> speed]

\* a variant of Fall in which nothing comes down
Fall_frozen(speed, mult2, dt) == 0

\* the distance y += speed * speed_multiplier * dt * 60 adds, speed in
\* thousandths, speed_multiplier in halves, dt in milliseconds
Fall(speed, mult2, dt) == speed * mult2 * dt * 3

\* FallingObject.update
ObjectUpdate(obj, dt, mult2) == [obj EXCEPT !.y = obj.y + Fall(obj.speed, mult2, dt)]

\* PowerUp.update: no speed multiplier is applied
PowerUpUpdate(pu, dt) == [pu EXCEPT !.y = pu.y + Fall(pu.speed, 2, dt)]

\* a variant of is_off_screen that reports an object as soon as its lower
\* edge is below the screen
is_off_screen_touching(obj) == obj.y + OBJECT_HEIGHT * Px > SCREEN_HEIGHT * Px

\* FallingObject.is_off_screen / PowerUp.is_off_screen
is_off_screen(obj) == obj.y > SCREEN_HEIGHT * Px

\* FallingObject.get_rect / PowerUp.get_rect
ObjectRect(obj) == Rect(obj.x, obj.y, OBJECT_WIDTH, OBJECT_HEIGHT)

\* Basket.get_rect; the basket's y is fixed at construction (game.py:52-55)
BasketY == (SCREEN_HEIGHT - 30 - BASKET_Y_OFFSET) * Px
BasketRect(bx) == Rect(bx, BasketY, BASKET_WIDTH, BASKET_HEIGHT)

\* Basket.__init__
Basket(x, y) ==
    [x |-> x, y |-> y, width |-> BASKET_WIDTH, height |-> BASKET_HEIGHT,
     speed |-> BASKET_SPEED, velocity_x |-> 0]

\* a variant of Basket_update that stops the basket at the left edge only
Basket_update_open(b, keys, dt) ==
    LET v == IF keys \in {"right", "both"} THEN b.speed
             ELSE IF keys = "left" THEN -b.speed ELSE 0
        x1 == b.x + v * dt * 6 * (Px \div 100)
    IN [b EXCEPT !.velocity_x = v, !.x = Max(0, x1)]

\* Basket.update: keys is "none", "left" (the left arrow or A), "right"
\* (the right arrow or D) or "both", in which the second if wins; dt in
\* milliseconds: x += velocity_x * dt * 60, then the clamp to the screen
Basket_update(b, keys, dt) ==
    LET v == IF keys \in {"right", "both"} THEN b.speed
             ELSE IF keys = "left" THEN -b.speed ELSE 0
        x1 == b.x + v * dt * 6 * (Px \div 100)
    IN [b EXCEPT !.velocity_x = v,
                 !.x = Max(0, Min(x1, (SCREEN_WIDTH - b.width) * Px))]

\* Basket.update in the frame loop, which keeps the basket's x only
BasketUpdate(bx, keys, dt) == Basket_update(Basket(bx, BasketY), keys, dt).x

\* A particle is its age and lifetime in milliseconds, and id, which tells
\* the objects apart; its position, velocity, colour and size do not bear
\* on its life. Particle(.., lifetime) as the dataclass makes it:
Particle(id, lifetime) == [id |-> id, age |-> 0, lifetime |-> lifetime]

\* a variant of Particle_update in which a particle lives through the
\* moment its age reaches its lifetime
Particle_update_inclusive(p, dt) ==
    LET q == [p EXCEPT !.age = p.age + dt]
    IN [p |-> q, alive |-> q.age <= q.lifetime]

\* Particle.update: the particle afterwards and the value returned
Particle_update(p, dt) ==
    LET q == [p EXCEPT !.age = p.age + dt]
    IN [p |-> q, alive |-> q.age < q.lifetime]

\* ParticleSystem.emit: count particles of lifetime PARTICLE_LIFETIME, new
\* objects each (ids from next on)
emit(particles, next, count) ==
    particles \o [i \in 1..count |-> Particle(next + i - 1, PARTICLE_LIFETIME)]

\* ParticleSystem.update: [p for p in self.particles if p.update(dt)];
\* Updates is what each p.update(dt) gave, in order
Updates(particles, dt) == [i \in 1..Len(particles) |-> Particle_update(particles[i], dt)]
RECURSIVE Kept(_)
Kept(us) ==
    IF us = <<>> THEN <<>>
    ELSE IF Head(us).alive THEN <<Head(us).p>> \o Kept(Tail(us))
    ELSE Kept(Tail(us))
ParticleSystem_update(particles, dt) == Kept(Updates(particles, dt))

\* ------------------------------------------------------------ game.py
\* The Game object is a record g whose fields are the attributes of self;
\* g.score_manager is the ScoreManager record, g.stats the statistics
\* record of the StatisticsManager.

\* g.audio_manager is the AudioManager: enabled, the names in sound_effects,
\* and played, the sounds the mixer was asked to play in the present frame.

\* AudioManager.load_all_sounds: the names of the sound effects
Sounds ==
    {"catch_red", "catch_green", "catch_yellow", "catch_purple", "catch_bomb",
     "miss", "powerup", "combo", "game_over", "button_click"}

\* AudioManager.__init__ and load_all_sounds: mixer_ok is whether
\* pygame.mixer.init succeeded, loaded the sounds that could be loaded or
\* replaced by a placeholder (load_sound returns at once when not enabled)
AudioManager(mixer_ok, loaded) ==
    [enabled |-> mixer_ok, sound_effects |-> IF mixer_ok THEN loaded ELSE {},
     played |-> <<>>]

\* a variant of play_sound that stops the game when the sound cannot be
\* played
play_sound_required(g, name) ==
    IF ~g.audio_manager.enabled \/ name \notin g.audio_manager.sound_effects
    THEN [g EXCEPT !.running = FALSE]
    ELSE [g EXCEPT !.audio_manager.played = Append(@, name)]

\* AudioManager.play_sound, as called on self.audio_manager
play_sound(g, name) ==
    IF ~g.audio_manager.enabled \/ name \notin g.audio_manager.sound_effects
    THEN g
    ELSE [g EXCEPT !.audio_manager.played = Append(@, name)]

\* f"catch_{obj.type.object_name}"
CatchSound(t) ==
    CASE t = "red" -> "catch_red"
      [] t = "green" -> "catch_green"
      [] t = "yellow" -> "catch_yellow"
      [] t = "purple" -> "catch_purple"
      [] t = "bomb" -> "catch_bomb"

\* What a step of the frame is measured on: the log of a frame holds, for
\* every object or power-up resolved in it, the state before and after.
Snap(g) ==
    [sm |-> g.score_manager, caught |-> g.objects_caught,
     missed |-> g.objects_missed, active |-> g.active_powerup,
     timer |-> g.powerup_timer, objs |-> g.falling_objects,
     pus |-> g.powerups]
Event(kind, obj, g0, g1) ==
    [kind |-> kind, obj |-> obj, pre |-> Snap(g0), post |-> Snap(g1)]

\* list.remove of the element at position i
RemoveAt(seq, i) == SubSeq(seq, 1, i - 1) \o SubSeq(seq, i + 1, Len(seq))

\* a variant of MissObject that counts a miss only when it costs points
MissObject_uncounted(g, i) ==
    IF g.active_powerup # "shield"
    THEN [g EXCEPT !.score_manager = subtract_points(g.score_manager, MISS_PENALTY),
                   !.objects_missed = g.objects_missed + 1,
                   !.falling_objects = RemoveAt(g.falling_objects, i)]
    ELSE [g EXCEPT !.falling_objects = RemoveAt(g.falling_objects, i)]

\* a variant of MissObject in which the shield saves the points but not the
\* combo
MissObject_combo_lost(g, i) ==
    LET g1 == IF g.active_powerup # "shield"
              THEN play_sound([g EXCEPT !.score_manager =
                                  subtract_points(g.score_manager, MISS_PENALTY)],
                              "miss")
              ELSE [g EXCEPT !.score_manager = reset_combo(g.score_manager)]
    IN [g1 EXCEPT !.objects_missed = g.objects_missed + 1,
                  !.falling_objects = RemoveAt(g.falling_objects, i)]

\* Game._update_playing, lines 345-351: the object at position i of
\* falling_objects has gone off-screen
MissObject(g, i) ==
    LET g1 == IF g.active_powerup # "shield"
              THEN play_sound([g EXCEPT !.score_manager =
                                  subtract_points(g.score_manager, MISS_PENALTY)],
                              "miss")
              ELSE g
    IN [g1 EXCEPT !.objects_missed = g.objects_missed + 1,
                  !.falling_objects = RemoveAt(g.falling_objects, i)]

\* Game._update_playing, lines 343-351: the loop over falling_objects[:],
\* from position i of the live list on (the positions before i are kept)
RECURSIVE UpdateObjects(_, _, _, _)
UpdateObjects(w, i, dt, mult2) ==
    IF i > Len(w.g.falling_objects) THEN w
    ELSE LET obj == ObjectUpdate(w.g.falling_objects[i], dt, mult2)
             g0 == [w.g EXCEPT !.falling_objects[i] = obj]
         IN IF is_off_screen(obj)
            THEN LET g1 == MissObject(g0, i)
                 IN UpdateObjects([g |-> g1,
                                   log |-> Append(w.log, Event("miss", obj, g0, g1))],
                                  i, dt, mult2)
            ELSE UpdateObjects([w EXCEPT !.g = g0], i + 1, dt, mult2)

\* Game._update_playing, lines 354-357: the loop over powerups[:]
RECURSIVE UpdatePowerUps(_, _, _)
UpdatePowerUps(w, i, dt) ==
    IF i > Len(w.g.powerups) THEN w
    ELSE LET pu == PowerUpUpdate(w.g.powerups[i], dt)
             g0 == [w.g EXCEPT !.powerups[i] = pu]
         IN IF is_off_screen(pu)
            THEN LET g1 == [g0 EXCEPT !.powerups = RemoveAt(g0.powerups, i)]
                 IN UpdatePowerUps([g |-> g1,
                                    log |-> Append(w.log, Event("powerup_off", pu, g0, g1))],
                                   i, dt)
            ELSE UpdatePowerUps([w EXCEPT !.g = g0], i + 1, dt)

\* a variant of BombCaught in which Shield protects from the bomb's damage
BombCaught_shielded(g, i) ==
    [g EXCEPT !.score_manager =
                  IF g.active_powerup = "shield" THEN g.score_manager
                  ELSE reset_combo(subtract_points(g.score_manager, BOMB_DAMAGE)),
              !.objects_missed = g.objects_missed + 1,
              !.falling_objects = RemoveAt(g.falling_objects, i)]

\* Game._check_collisions, lines 233-243: the bomb at position i is caught
BombCaught(g, i) ==
    play_sound([g EXCEPT !.score_manager =
                            reset_combo(subtract_points(g.score_manager, BOMB_DAMAGE)),
                         !.objects_missed = g.objects_missed + 1,
                         !.falling_objects = RemoveAt(g.falling_objects, i)],
               "catch_bomb")

\* a variant of CatchMultiplier that ignores Double Points
CatchMultiplier_undoubled(g) == get_combo_multiplier(g.score_manager)

\* a variant of CatchMultiplier that reads the multiplier of the combo the
\* catch is about to make, not of the combo held before it
CatchMultiplier_next(g) ==
    LET m == [g.score_manager EXCEPT !.combo = g.score_manager.combo + 1]
    IN IF g.active_powerup = "double_points"
       THEN get_combo_multiplier(m) * 2
       ELSE get_combo_multiplier(m)

\* Game._check_collisions, lines 246-248: the multiplier of a catch, in halves
CatchMultiplier(g) ==
    IF g.active_powerup = "double_points"
    THEN get_combo_multiplier(g.score_manager) * 2
    ELSE get_combo_multiplier(g.score_manager)

\* a variant of ObjectCaught that scores the catch without counting it
ObjectCaught_uncounted(g, i) ==
    [g EXCEPT !.score_manager =
                  add_points(g.score_manager, Points(g.falling_objects[i].type),
                             CatchMultiplier(g)),
              !.falling_objects = RemoveAt(g.falling_objects, i)]

\* Game._check_collisions, lines 244-260: the good object at position i is
\* caught
ObjectCaught(g, i) ==
    LET g1 == [g EXCEPT !.score_manager =
                            add_points(g.score_manager, Points(g.falling_objects[i].type),
                                       CatchMultiplier(g)),
                        !.objects_caught = g.objects_caught + 1,
                        !.falling_objects = RemoveAt(g.falling_objects, i)]
        g2 == play_sound(g1, CatchSound(g.falling_objects[i].type))
    IN IF g2.score_manager.combo > 2 THEN play_sound(g2, "combo") ELSE g2

\* a variant of _activate_powerup that adds the new duration to what is left
_activate_powerup_stacking(g, powerup_type) ==
    [g EXCEPT !.active_powerup = powerup_type,
              !.powerup_timer = g.powerup_timer + POWERUP_DURATION]

\* Game._activate_powerup
_activate_powerup(g, powerup_type) ==
    [g EXCEPT !.active_powerup = powerup_type, !.powerup_timer = POWERUP_DURATION]

\* Game._check_collisions, lines 230-260: the loop over falling_objects[:]
RECURSIVE CollideObjects(_, _)
CollideObjects(w, i) ==
    IF i > Len(w.g.falling_objects) THEN w
    ELSE LET obj == w.g.falling_objects[i]
         IN IF colliderect(BasketRect(w.g.basket_x), ObjectRect(obj))
            THEN LET g1 == IF IsBomb(obj.type) THEN BombCaught(w.g, i)
                           ELSE ObjectCaught(w.g, i)
                     kind == IF IsBomb(obj.type) THEN "bomb" ELSE "catch"
                 IN CollideObjects([g |-> g1,
                                    log |-> Append(w.log, Event(kind, obj, w.g, g1))],
                                   i)
            ELSE CollideObjects(w, i + 1)

\* Game._check_collisions, lines 263-268: the loop over powerups[:]
RECURSIVE CollidePowerUps(_, _)
CollidePowerUps(w, i) ==
    IF i > Len(w.g.powerups) THEN w
    ELSE LET pu == w.g.powerups[i]
         IN IF colliderect(BasketRect(w.g.basket_x), ObjectRect(pu))
            THEN LET g1 == [play_sound(_activate_powerup(w.g, pu.type), "powerup")
                               EXCEPT !.powerups = RemoveAt(w.g.powerups, i)]
                 IN CollidePowerUps([g |-> g1,
                                     log |-> Append(w.log, Event("powerup", pu, w.g, g1))],
                                    i)
            ELSE CollidePowerUps(w, i + 1)

\* Game._check_collisions
_check_collisions(w) == CollidePowerUps(CollideObjects(w, 1), 1)

\* object_speed is a Python float: 5, then 5 + 0.1, (5 + 0.1) + 0.1, ...,
\* each sum rounded to the nearest double. The record keeps it as
\*   object_speed / 1000 + object_speed_err * u,   u = 2^-55 / 5:
\* object_speed is the decimal value in thousandths and object_speed_err
\* the distance of the double from it, in units of u. In these units 1/10 is
\* 2^54, the double 0.1 (0x3FB999999999999A = 3602879701896397 * 2^-55) is
\* 2^54 + 1, and the doubles are 160 apart in [4, 8), 320 apart in [8, 16)
\* and 640 apart in [16, 32).
RECURSIVE PowMod(_, _, _)
PowMod(b, e, m) == IF e = 0 THEN 1 % m ELSE (b * PowMod(b, e - 1, m)) % m

\* the spacing of the doubles around n / 10 + e * u
FloatSpacing(n, e) ==
    IF n < 80 \/ (n = 80 /\ e < 0) THEN 160
    ELSE IF n < 160 \/ (n = 160 /\ e < 0) THEN 320
    ELSE 640

\* the double nearest to n / 10 + e * u (ties to even), as its distance
\* from n / 10
FloatRound(n, e) ==
    LET G == FloatSpacing(n, e)
        r == (n * PowMod(2, 54, 2 * G) + e) % (2 * G)
        lo == r % G
        down == \/ 2 * lo < G
                \/ 2 * lo = G /\ r < G
    IN IF down THEN e - lo ELSE e + (G - lo)

\* Game._increase_difficulty, line 277: object_speed < OBJECT_MAX_SPEED
SpeedBelowMax(g) ==
    \/ g.object_speed < Milli(OBJECT_MAX_SPEED)
    \/ g.object_speed = Milli(OBJECT_MAX_SPEED) /\ g.object_speed_err < 0

\* Game._increase_difficulty, line 278: object_speed += OBJECT_SPEED_INCREMENT
SpeedIncrement(g) ==
    [g EXCEPT !.object_speed = g.object_speed + OBJECT_SPEED_INCREMENT,
              !.object_speed_err =
                  FloatRound((g.object_speed + OBJECT_SPEED_INCREMENT) \div 100,
                             g.object_speed_err + 1)]

\* Game._increase_difficulty
_increase_difficulty(g) ==
    LET g1 == IF SpeedBelowMax(g) THEN SpeedIncrement(g) ELSE g
    IN [g1 EXCEPT !.spawn_delay = IF g.spawn_delay > SPAWN_DELAY_MIN
                                  THEN g.spawn_delay - SPAWN_DELAY_DECREASE
                                  ELSE g.spawn_delay]

\* Game._spawn_object: rnd holds the random draws (column, offset, type)
_spawn_object(g, rnd) ==
    LET column_width == SCREEN_WIDTH \div SPAWN_POSITION_VARIANCE
        x0 == rnd.column * column_width + rnd.offset
        x == Max(0, Min(x0, SCREEN_WIDTH - 40))
    IN [g EXCEPT !.falling_objects =
            Append(g.falling_objects,
                   FallingObject(x * Px, (-40) * Px, rnd.type, g.object_speed))]

\* Game._spawn_powerup: rnd.powerup is None when random() >= POWERUP_SPAWN_CHANCE;
\* the speed is object_speed * 0.7
_spawn_powerup(g, rnd) ==
    IF rnd.powerup = None THEN g
    ELSE [g EXCEPT !.powerups =
            Append(g.powerups,
                   FallingObject(rnd.powerup_x * Px, (-40) * Px, rnd.powerup,
                                 (g.object_speed * 7) \div 10))]

\* StatisticsManager.end_session (and the save it ends with), now in ms
end_session(sman, score, best_combo, objects_caught, objects_missed, now) ==
    LET st == sman.stats
        t == IF sman.session_start_time # -1
             THEN st.total_time_seconds + (now - sman.session_start_time) \div 1000
             ELSE st.total_time_seconds
    IN [stats |-> [games_played |-> st.games_played + 1,
                   total_score |-> st.total_score + score,
                   total_time_seconds |-> t,
                   best_combo |-> Max(st.best_combo, best_combo),
                   objects_caught |-> st.objects_caught + objects_caught,
                   objects_missed |-> st.objects_missed + objects_missed],
        session_start_time |-> -1]

\* a variant of _end_game that does not write the high score file
_end_game_unsaved(g, now) ==
    [g EXCEPT !.state = GAME_OVER,
              !.stats_manager =
                  end_session(g.stats_manager, g.score_manager.score,
                              g.score_manager.best_combo, g.objects_caught,
                              g.objects_missed, now)]

\* Game._end_game; the high score file is written by save_high_score
_end_game(g, now) ==
    [play_sound(g, "game_over")
        EXCEPT !.state = GAME_OVER,
              !.stats_manager =
                  end_session(g.stats_manager, g.score_manager.score,
                              g.score_manager.best_combo, g.objects_caught,
                              g.objects_missed, now),
              !.highscore_file = g.score_manager.high_score]

\* Game._update_playing, lines 322-328: game_time and difficulty_timer, in
\* milliseconds
UpdateDifficulty(g, dt) ==
    LET t == g.difficulty_timer + dt
        g1 == [g EXCEPT !.game_time = g.game_time + dt]
    IN IF t >= DIFFICULTY_INCREASE_INTERVAL * 1000
       THEN [_increase_difficulty(g1) EXCEPT !.difficulty_timer = 0]
       ELSE [g1 EXCEPT !.difficulty_timer = t]

\* Game._update_playing, line 332: the spawn test, now = pygame.time.get_ticks()
SpawnDue(g, now) == now - g.last_spawn_time > g.spawn_delay

\* Game._update_playing, lines 331-335
Spawn(g, now, rnd) ==
    IF SpawnDue(g, now)
    THEN [_spawn_powerup(_spawn_object(g, rnd), rnd) EXCEPT !.last_spawn_time = now]
    ELSE g

\* Game._update_playing, lines 338-340, in halves
SpeedMultiplier(g) == IF g.active_powerup = "slow_mo" THEN 1 ELSE 2

\* a variant of UpdatePowerUpTimer that never takes the power-up away
UpdatePowerUpTimer_lingering(g, dt) ==
    IF g.active_powerup # None
    THEN [g EXCEPT !.powerup_timer = g.powerup_timer - dt]
    ELSE g

\* Game._update_playing, lines 360-363
UpdatePowerUpTimer(g, dt) ==
    IF g.active_powerup # None
    THEN LET t == g.powerup_timer - dt
         IN [g EXCEPT !.powerup_timer = t,
                      !.active_powerup = IF t <= 0 THEN None ELSE g.active_powerup]
    ELSE g

\* Game._update_playing, lines 377-379
CheckGameOver(g, now) ==
    IF is_game_over(g.score_manager) THEN _end_game(g, now) ELSE g

\* Game._update_playing: one tick of PLAYING. w is [g, log]; the particle
\* system and the background are drawn state only and are left out.
_update_playing(w, dt, keys, now, rnd) ==
    LET g1 == [w.g EXCEPT !.basket_x = BasketUpdate(w.g.basket_x, keys, dt)]
        g2 == UpdateDifficulty(g1, dt)
        g3 == Spawn(g2, now, rnd)
        mult2 == SpeedMultiplier(g3)
        w4 == UpdateObjects([g |-> g3, log |-> w.log], 1, dt, mult2)
        w5 == UpdatePowerUps(w4, 1, dt)
        w6 == [w5 EXCEPT !.g = UpdatePowerUpTimer(w5.g, dt)]
        w7 == _check_collisions(w6)
        g8 == [w7.g EXCEPT !.score_manager = update_combo_timer(w7.g.score_manager, dt)]
    IN [g |-> CheckGameOver(g8, now), log |-> w7.log]

\* a variant of _reset_game that leaves the live objects where they were
_reset_game_littered(g) ==
    [g EXCEPT !.score_manager = reset(g.score_manager),
              !.powerups = <<>>,
              !.basket_x = (SCREEN_WIDTH \div 2 - BASKET_WIDTH \div 2) * Px,
              !.last_spawn_time = 0,
              !.spawn_delay = OBJECT_SPAWN_DELAY,
              !.object_speed = Milli(OBJECT_BASE_SPEED),
              !.object_speed_err = 0,
              !.game_time = 0,
              !.difficulty_timer = 0,
              !.active_powerup = None,
              !.powerup_timer = 0,
              !.objects_caught = 0,
              !.objects_missed = 0]

\* Game._reset_game
_reset_game(g) ==
    [g EXCEPT !.score_manager = reset(g.score_manager),
              !.falling_objects = <<>>,
              !.powerups = <<>>,
              !.basket_x = (SCREEN_WIDTH \div 2 - BASKET_WIDTH \div 2) * Px,
              !.last_spawn_time = 0,
              !.spawn_delay = OBJECT_SPAWN_DELAY,
              !.object_speed = Milli(OBJECT_BASE_SPEED),
              !.object_speed_err = 0,
              !.game_time = 0,
              !.difficulty_timer = 0,
              !.active_powerup = None,
              !.powerup_timer = 0,
              !.objects_caught = 0,
              !.objects_missed = 0]

\* Game._start_game (StatisticsManager.start_session notes the time)
_start_game(g, now) ==
    [_reset_game([play_sound(g, "button_click") EXCEPT !.state = PLAYING])
        EXCEPT !.stats_manager.session_start_time = now]

\* Game._show_statistics, _show_settings, _quit_game, _resume_game
_show_statistics(g) == [play_sound(g, "button_click") EXCEPT !.state = STATISTICS]
_show_settings(g) == [play_sound(g, "button_click") EXCEPT !.state = SETTINGS]
_quit_game(g) == [play_sound(g, "button_click") EXCEPT !.running = FALSE]
_resume_game(g) == [play_sound(g, "button_click") EXCEPT !.state = PLAYING]

\* a variant of _return_to_menu that also clears the session
_return_to_menu_resetting(g) ==
    _reset_game([play_sound(g, "button_click") EXCEPT !.state = MAIN_MENU])

\* Game._return_to_menu
_return_to_menu(g) == [play_sound(g, "button_click") EXCEPT !.state = MAIN_MENU]

\* the callback a button was created with
Callback(g, name, now) ==
    CASE name = "_start_game" -> _start_game(g, now)
      [] name = "_show_statistics" -> _show_statistics(g)
      [] name = "_show_settings" -> _show_settings(g)
      [] name = "_quit_game" -> _quit_game(g)
      [] name = "_resume_game" -> _resume_game(g)
      [] name = "_return_to_menu" -> _return_to_menu(g)

\* Game._create_menus: the buttons of each menu, in the order they are added
Button(id, y_offset, callback) == [id |-> id, y_offset |-> y_offset, callback |-> callback]
Buttons(menu) ==
    CASE menu = MAIN_MENU ->
            << Button("main.start", -20, "_start_game"),
               Button("main.statistics", 60, "_show_statistics"),
               Button("main.settings", 140, "_show_settings"),
               Button("main.quit", 220, "_quit_game") >>
      [] menu = PAUSED ->
            << Button("pause.resume", -20, "_resume_game"),
               Button("pause.menu", 60, "_return_to_menu") >>
      [] menu = GAME_OVER ->
            << Button("over.again", 20, "_start_game"),
               Button("over.menu", 100, "_return_to_menu") >>
      [] menu = STATISTICS -> << Button("stats.back", 180, "_return_to_menu") >>
      [] menu = SETTINGS -> << Button("settings.back", 180, "_return_to_menu") >>

\* Menu.add_button: the rectangle of a button
ButtonRect(b) ==
    [x |-> SCREEN_WIDTH \div 2 - BUTTON_WIDTH \div 2,
     y |-> SCREEN_HEIGHT \div 2 + b.y_offset,
     w |-> BUTTON_WIDTH, h |-> BUTTON_HEIGHT]

\* pygame.Rect.collidepoint
collidepoint(r, pos) ==
    /\ r.x <= pos.x /\ pos.x < r.x + r.w
    /\ r.y <= pos.y /\ pos.y < r.y + r.h

\* Button.update; g.is_pressed is the set of buttons whose is_pressed is set,
\* g.invoked the buttons whose callback was called in the present frame
ButtonUpdate(g, b, mouse_pos, mouse_pressed, now) ==
    IF collidepoint(ButtonRect(b), mouse_pos) /\ mouse_pressed /\ b.id \notin g.is_pressed
    THEN Callback([g EXCEPT !.is_pressed = g.is_pressed \cup {b.id},
                            !.invoked = Append(g.invoked, b.id)],
                  b.callback, now)
    ELSE IF ~mouse_pressed
         THEN [g EXCEPT !.is_pressed = g.is_pressed \ {b.id}]
         ELSE g

\* Menu.update: every button of the menu, in order
RECURSIVE MenuUpdate(_, _, _, _, _, _)
MenuUpdate(g, buttons, i, mouse_pos, mouse_pressed, now) ==
    IF i > Len(buttons) THEN g
    ELSE MenuUpdate(ButtonUpdate(g, buttons[i], mouse_pos, mouse_pressed, now),
                    buttons, i + 1, mouse_pos, mouse_pressed, now)

\* a variant of HandleEvent in which Escape pauses from the main menu too
HandleEvent_pausing(g, event) ==
    IF event = "quit" THEN [g EXCEPT !.running = FALSE]
    ELSE IF event = "escape"
         THEN IF g.state \in {PLAYING, MAIN_MENU} THEN [g EXCEPT !.state = PAUSED]
              ELSE IF g.state = PAUSED THEN [g EXCEPT !.state = PLAYING]
              ELSE IF g.state \in {STATISTICS, SETTINGS}
                   THEN [g EXCEPT !.state = MAIN_MENU]
                   ELSE g
         ELSE g

\* Game._handle_input, lines 291-301: one event
HandleEvent(g, event) ==
    IF event = "quit" THEN [g EXCEPT !.running = FALSE]
    ELSE IF event = "escape"
         THEN IF g.state = PLAYING THEN [g EXCEPT !.state = PAUSED]
              ELSE IF g.state = PAUSED THEN [g EXCEPT !.state = PLAYING]
              ELSE IF g.state \in {STATISTICS, SETTINGS}
                   THEN [g EXCEPT !.state = MAIN_MENU]
                   ELSE g
         ELSE g

RECURSIVE HandleEvents(_, _)
HandleEvents(g, events) ==
    IF events = <<>> THEN g
    ELSE HandleEvents(HandleEvent(g, Head(events)), Tail(events))

\* the values self.state takes in the loop over the events, one per event
RECURSIVE EventStates(_, _)
EventStates(g, events) ==
    IF events = <<>> THEN <<>>
    ELSE <<HandleEvent(g, Head(events)).state>>
            \o EventStates(HandleEvent(g, Head(events)), Tail(events))

\* Game._handle_input; inp holds what pygame reports in this frame
_handle_input(g, inp, now) ==
    LET mouse_pressed == inp.mouse_down /\ ~g.mouse_pressed_last_frame
        g1 == [g EXCEPT !.mouse_pressed_last_frame = inp.mouse_down]
        g2 == HandleEvents(g1, inp.events)
    IN IF g2.state = PLAYING THEN g2
       ELSE MenuUpdate(g2, Buttons(g2.state), 1, inp.mouse_pos, mouse_pressed, now)

\* Game.__init__; loaded is what ScoreManager._load_high_score returned and
\* file the content of the high score file (-1: no file)
NewGame(loaded, file) ==
    [state |-> MAIN_MENU, running |-> TRUE,
     score_manager |-> NewScoreManager(loaded),
     stats_manager |-> [stats |-> [games_played |-> 0, total_score |-> 0,
                                   total_time_seconds |-> 0, best_combo |-> 0,
                                   objects_caught |-> 0, objects_missed |-> 0],
                        session_start_time |-> -1],
     highscore_file |-> file,
     basket_x |-> (SCREEN_WIDTH \div 2 - BASKET_WIDTH \div 2) * Px,
     falling_objects |-> <<>>, powerups |-> <<>>,
     last_spawn_time |-> 0, spawn_delay |-> OBJECT_SPAWN_DELAY,
     object_speed |-> Milli(OBJECT_BASE_SPEED), object_speed_err |-> 0,
     game_time |-> 0,
     difficulty_timer |-> 0,
     active_powerup |-> None, powerup_timer |-> 0,
     objects_caught |-> 0, objects_missed |-> 0,
     mouse_pressed_last_frame |-> FALSE, is_pressed |-> {}, invoked |-> <<>>,
     audio_manager |-> AudioManager(TRUE, Sounds)]

\* ------------------------------------------------- utils.py: the data files
\* A Python value kept in a settings or statistics dictionary: its type t,
\* and the number n or the string s it holds (a bool as 0 or 1, a float in
\* tenths).
PyBool(b) == [t |-> "bool", n |-> IF b THEN 1 ELSE 0, s |-> ""]
PyInt(n) == [t |-> "int", n |-> n, s |-> ""]
PyFloat(tenths) == [t |-> "float", n |-> tenths, s |-> ""]
PyStr(s) == [t |-> "str", n |-> 0, s |-> s]
PyNone == [t |-> "NoneType", n |-> 0, s |-> ""]

\* A dictionary is a function from its keys; this one has none.
EmptyDict == [k \in {} |-> PyNone]

\* json.dump, json.load of one value: the JSON token j with its digits n or
\* its characters s
JsonDump(v) ==
    CASE v.t = "bool" -> [j |-> IF v.n = 1 THEN "true" ELSE "false", n |-> 0, s |-> ""]
      [] v.t = "int" -> [j |-> "integer", n |-> v.n, s |-> ""]
      [] v.t = "float" -> [j |-> "real", n |-> v.n, s |-> ""]
      [] v.t = "str" -> [j |-> "string", n |-> 0, s |-> v.s]
      [] v.t = "NoneType" -> [j |-> "null", n |-> 0, s |-> ""]
JsonLoad(x) ==
    CASE x.j = "true" -> PyBool(TRUE)
      [] x.j = "false" -> PyBool(FALSE)
      [] x.j = "integer" -> PyInt(x.n)
      [] x.j = "real" -> PyFloat(x.n)
      [] x.j = "string" -> PyStr(x.s)
      [] x.j = "null" -> PyNone

\* The text of a file, by what the two parsers make of it: form "int" is
\* digits (int() gives n, json.load the number n), "array" a JSON list,
\* "object" a JSON object with the given members, "garbage" anything that
\* is neither an integer nor JSON (the empty text included).
IntText(n) == [form |-> "int", n |-> n, members |-> EmptyDict]
ArrayText == [form |-> "array", n |-> 0, members |-> EmptyDict]
GarbageText == [form |-> "garbage", n |-> 0, members |-> EmptyDict]
\* json.dump(d, f, indent=2) of a dictionary d
ObjectText(d) ==
    [form |-> "object", n |-> 0, members |-> [k \in DOMAIN d |-> JsonDump(d[k])]]

\* A file of the data directory: whether it exists, whether open(.., 'r')
\* succeeds on it, and its text.
MissingFile == [exists |-> FALSE, readable |-> FALSE, text |-> GarbageText]
TextFile(text) == [exists |-> TRUE, readable |-> TRUE, text |-> text]
LockedFile(text) == [exists |-> TRUE, readable |-> FALSE, text |-> text]

\* What a block of statements comes to: the value it returns, or the
\* exception it raises; a try statement whose except clause names the
\* exceptions of caught and passes on to the statement that returns fallback.
Return(v) == [raised |-> "none", ret |-> v]
Raise(e, v) == [raised |-> e, ret |-> v]
Try(o, caught, fallback) == IF o.raised \in caught THEN Return(fallback) ELSE o

\* utils.py lines 32-33: open the file and int(f.read().strip())
ReadInt(f) ==
    IF ~f.readable THEN Raise("IOError", 0)
    ELSE IF f.text.form # "int" THEN Raise("ValueError", 0)
    ELSE Return(f.text.n)

\* ScoreManager._load_high_score, from the file f
LoadHighScore(f) ==
    IF f.exists THEN Try(ReadInt(f), {"ValueError", "IOError"}, 0) ELSE Return(0)

\* ScoreManager._load_high_score in the frame loop, where the file is either
\* missing (file = -1) or holds the integer that save_high_score wrote
_load_high_score(file) ==
    LoadHighScore(IF file = -1 THEN MissingFile ELSE TextFile(IntText(file))).ret

\* open the file and json.load(f): the dictionary loaded; a loaded value
\* that is not a mapping is a TypeError in the {** } that follows
ReadJson(f) ==
    IF ~f.readable THEN Raise("IOError", EmptyDict)
    ELSE IF f.text.form = "garbage" THEN Raise("JSONDecodeError", EmptyDict)
    ELSE IF f.text.form # "object" THEN Raise("TypeError", EmptyDict)
    ELSE Return([k \in DOMAIN f.text.members |-> JsonLoad(f.text.members[k])])

\* a variant of Merged in which the defaults win over the loaded keys
Merged_defaults_win(defaults, o) ==
    IF o.raised # "none" THEN o
    ELSE Return([k \in DOMAIN defaults \cup DOMAIN o.ret |->
                    IF k \in DOMAIN defaults THEN defaults[k] ELSE o.ret[k]])

\* {**defaults, **loaded}
Merged(defaults, o) ==
    IF o.raised # "none" THEN o
    ELSE Return([k \in DOMAIN defaults \cup DOMAIN o.ret |->
                    IF k \in DOMAIN o.ret THEN o.ret[k] ELSE defaults[k]])

\* StatisticsManager._load_statistics
default_stats ==
    [games_played |-> PyInt(0), total_score |-> PyInt(0),
     total_time_seconds |-> PyInt(0), best_combo |-> PyInt(0),
     objects_caught |-> PyInt(0), objects_missed |-> PyInt(0),
     last_played |-> PyNone]
_load_statistics(f) ==
    IF f.exists
    THEN Try(Merged(default_stats, ReadJson(f)), {"JSONDecodeError", "IOError"},
             default_stats)
    ELSE Return(default_stats)

\* SettingsManager._load_settings
default_settings ==
    [sound_volume |-> PyFloat(DEFAULT_VOLUME), music_volume |-> PyFloat(MUSIC_VOLUME),
     fullscreen |-> PyBool(FALSE), show_fps |-> PyBool(FALSE),
     difficulty |-> PyStr("normal"), particles_enabled |-> PyBool(TRUE)]
_load_settings(f) ==
    IF f.exists
    THEN Try(Merged(default_settings, ReadJson(f)), {"JSONDecodeError", "IOError"},
             default_settings)
    ELSE Return(default_settings)

\* with open(.., 'w') as f: f.write(text). io is what the file system
\* does: "ok", "open_fails" (IOError, the file is left as it was) or
\* "write_fails" (IOError after open has emptied the file). The value is the
\* file afterwards.
Written(f, text, io) ==
    CASE io = "ok" ->
            Return([exists |-> TRUE, readable |-> IF f.exists THEN f.readable ELSE TRUE,
                    text |-> text])
      [] io = "open_fails" -> Raise("IOError", f)
      [] io = "write_fails" ->
            Raise("IOError",
                  [exists |-> TRUE, readable |-> IF f.exists THEN f.readable ELSE TRUE,
                   text |-> GarbageText])

\* a save method on the manager whose dictionary is d: the write in
\* try .. except IOError, which prints the error; what comes back is the
\* exception that leaves the method, the dictionary and the file
SaveOutcome(d, w) ==
    LET o == Try(w, {"IOError"}, w.ret)
    IN [raised |-> o.raised, mem |-> d, file |-> o.ret]

\* ScoreManager.save_high_score, StatisticsManager.save_statistics
save_high_score(d, f, io) == SaveOutcome(d, Written(f, IntText(d.high_score.n), io))
save_statistics(stats, f, io) == SaveOutcome(stats, Written(f, ObjectText(stats), io))

\* a variant of save_settings that lets the IOError through
save_settings_uncaught(settings, f, io) ==
    LET w == Written(f, ObjectText(settings), io)
    IN [raised |-> w.raised, mem |-> settings, file |-> w.ret]

\* SettingsManager.save_settings
save_settings(settings, f, io) == SaveOutcome(settings, Written(f, ObjectText(settings), io))

\* The quotient of two integers, exactly: num over den, den > 0. Division
\* by zero raises.
Ratio(num, den) == [num |-> num, den |-> den]
Quotient(a, b) ==
    IF b = 0 THEN Raise("ZeroDivisionError", Ratio(0, 1)) ELSE Return(Ratio(a, b))

\* a variant of get_average_score that divides whenever a score was recorded
get_average_score_by_score(stats) ==
    LET games == stats.games_played.n
    IN IF stats.total_score.n >= 0 THEN Quotient(stats.total_score.n, games)
       ELSE Return(Ratio(0, 1))

\* StatisticsManager.get_average_score
get_average_score(stats) ==
    LET games == stats.games_played.n
    IN IF games > 0 THEN Quotient(stats.total_score.n, games)
       ELSE Return(Ratio(0, 1))

\* StatisticsManager.get_catch_rate: caught / total * 100
get_catch_rate(stats) ==
    LET total == stats.objects_caught.n + stats.objects_missed.n
        q == Quotient(stats.objects_caught.n, total)
    IN IF total > 0
       THEN IF q.raised = "none" THEN Return(Ratio(q.ret.num * 100, q.ret.den)) ELSE q
       ELSE Return(Ratio(0, 1))

\* d[key] = value on a dictionary
SetItem(d, key, value) ==
    [k \in DOMAIN d \cup {key} |-> IF k = key THEN value ELSE d[k]]

\* SettingsManager.set and SettingsManager.toggle, before they save; not x
\* of a Python value x is a bool
Truthy(v) ==
    CASE v.t \in {"bool", "int", "float"} -> v.n # 0
      [] v.t = "str" -> v.s # ""
      [] v.t = "NoneType" -> FALSE
set(settings, key, value) == SetItem(settings, key, value)
toggle(settings, key) ==
    LET current == IF key \in DOMAIN settings THEN settings[key] ELSE PyBool(FALSE)
    IN SetItem(settings, key, PyBool(~Truthy(current)))

\* ------------------------------------------------------------ the frame loop
\* game:    the Game object
\* ticks:   pygame.time.get_ticks(), the milliseconds since start-up
\* log:     the objects and power-ups resolved in the last frame (see Event)
\* history: what was resolved since the session started, oldest first: the
\*          kind of each event, the object's type, the play time
\*          (game_time) of its tick, the score manager after it and the
\*          power-up active when it happened
\* frame:   the last frame's dt, the state it began in, the state after
\*          its input handling, and path: every value self.state held in
\*          the frame, in order (at its start, after each event, after the
\*          menu update, after the Playing update), and started: the
\*          Game object as _start_game left it, when the frame's menu
\*          update started a session from the main menu or from game over
\*          (the empty sequence otherwise), and spawned: the number of
\*          frames since the session started in which the spawn timer
\*          fired, one falling object each
\* process: the number of times the program was started, and the high
\*          score the running process loaded when it started
\* sm:      a ScoreManager of its own, driven call by call as
\*          tests/test_game.py drives one
\* call:    the last call made on sm: its name, arguments, the manager
\*          before it and the value returned
\* store:   one manager of utils.py with its data file, driven call by
\*          call: which manager (kind), the file, whether the manager was
\*          constructed (up) and its dictionary (mem; the high score under
\*          the key high_score), the exception the last call raised, the
\*          last call (op), what the file system did to its save (io), the
\*          dictionary when save was called (pre) and before the call
\*          (before), whether the file holds what was last saved from mem
\*          and mem has not changed since (synced), the number of failed
\*          saves so far (fails), the number a statistics getter returned
\*          (ret) and the number of calls (n)
\* ent:     an entity of entities.py driven call by call as
\*          tests/test_game.py drives one: which class (kind), the object
\*          (obj), the last call's argument and result, and the number of
\*          calls (n)
VARIABLES game, ticks, log, history, frame, process, sm, call, store, ent
vars == <<game, ticks, log, history, frame, process, sm, call, store, ent>>

\* the wall-clock time explored by each specification, in seconds
MaxSeconds == 5
MaxSecondsCombo == 7
MaxSecondsZero == 11
MaxSecondsTrace == 6
MaxSecondsPower == 11
MaxSecondsMenu == 10
MaxSecondsSession == 14
MaxSecondsProcess == 8
MaxSecondsFall == 6
MaxSecondsAudio == 6
MaxSecondsShield == 6
MaxSecondsCadence == 4
MaxSecondsDescent == 4
MaxSecondsLive == 25
\* the spawns of a session that are followed up one by one (SpecLive)
MaxSpawnedLive == 12

\* What a frame may be fed. A mouse input is the state of the left button
\* and the pointer's position; Click(380) is on the row of Start Game,
\* Resume and Play Again. A spawn place is the column and the offset drawn
\* by _spawn_object: InLane is above the basket's starting position,
\* OffLane is not.
NoMouse == [down |-> FALSE, pos |-> [x |-> 0, y |-> 0]]
Click(y) == [down |-> TRUE, pos |-> [x |-> SCREEN_WIDTH \div 2, y |-> y]]
InLane == [column |-> 1, offset |-> 154]
OffLane == [column |-> 0, offset |-> 100]

\* Spec: objects and bombs, caught and missed, with and without a power-up.
\* With frames of 1120 ms a spawn is due in every frame, an object above
\* the basket is caught in its second frame and a power-up in its third.
Inputs ==
    [seconds |-> MaxSeconds,
     dts |-> {1120},
     events |-> {<<>>},
     mouse |-> {Click(380)},
     keys |-> {"none"},
     types |-> {"red", "bomb"},
     places |-> {InLane, OffLane},
     powerups |-> {None, "shield", "double_points"},
     powerup_places |-> {InLane}]

\* SpecCombo: good objects only, all above the basket: a run of catches
ComboInputs ==
    [Inputs EXCEPT !.seconds = MaxSecondsCombo, !.types = {"red", "yellow"},
                   !.places = {InLane}, !.powerups = {None, "double_points"}]

\* SpecZero: objects and bombs above the basket, frames of uneven length:
\* an object may be caught or jumped over the basket, and the score may
\* reach 0
ZeroInputs ==
    [Inputs EXCEPT !.seconds = MaxSecondsZero, !.dts = {1300, 2300},
                   !.places = {InLane}, !.powerups = {None}]

\* SpecTrace: red objects only, frames of uneven length
TraceInputs ==
    [Inputs EXCEPT !.seconds = MaxSecondsTrace, !.dts = {300, 500, 1500},
                   !.types = {"red"}, !.places = {InLane}, !.powerups = {None}]

\* SpecPower: red objects above the basket and power-ups of two kinds, long
\* enough for a power-up to be caught, replaced and to run out
PowerInputs ==
    [Inputs EXCEPT !.seconds = MaxSecondsPower, !.types = {"red"},
                   !.places = {InLane}, !.powerups = {None, "slow_mo", "shield"}]

\* SpecMenu: the keyboard and the mouse at work on every screen. The
\* clicks are on the rows of the buttons: 380 is Start Game, Resume and
\* Play Again; 460 is Statistics and the Main Menu of the pause and
\* game-over screens; 540 is Settings and Back; 580 is Quit and Back.
\* The objects are bombs above the basket, which end a session in five
\* frames when none is avoided.
MenuInputs ==
    [Inputs EXCEPT !.seconds = MaxSecondsMenu,
                   !.events = {<<>>, <<"escape">>, <<"quit">>},
                   !.mouse = {NoMouse, Click(380), Click(460), Click(540), Click(580)},
                   !.types = {"bomb"}, !.places = {InLane}, !.powerups = {None}]

\* SpecShield: red objects above the basket and beside it, each spawned
\* with a shield above the basket, frames of 560 and 1120 ms: an object is
\* caught in one tick and another falls off in the next, while the combo
\* of the catch is still counting down, before and after the shield is
\* caught
ShieldInputs ==
    [Inputs EXCEPT !.seconds = MaxSecondsShield, !.dts = {560, 1120},
                   !.types = {"red"}, !.places = {InLane, OffLane},
                   !.powerups = {"shield"}]

\* SpecCadence: frames of 400 ms, shorter than the spawn delay, and the
\* pause key: the mouse button goes down on Start Game and stays down, red
\* objects are spawned beside the basket, with or without a shield above it
CadenceInputs ==
    [Inputs EXCEPT !.seconds = MaxSecondsCadence, !.dts = {400},
                   !.events = {<<>>, <<"escape">>}, !.types = {"red"},
                   !.places = {OffLane}, !.powerups = {None, "shield"}]

\* SpecDescent: frames of 25 and 50 ms, in which an object at the base
\* speed falls 7.5 and 15 pixels, the basket left where it starts: red
\* objects and bombs come down above the basket, step by step
DescentInputs ==
    [Inputs EXCEPT !.seconds = MaxSecondsDescent, !.dts = {25, 50},
                   !.types = {"red", "bomb"}, !.places = {InLane},
                   !.powerups = {None}]

\* SpecLive: frames of 1120 and 2240 ms for as long as the loop runs, the
\* basket left where it starts and nothing ever above it: every spawn is a
\* red object and a shield, both beside the basket, so that nothing is
\* caught and every object that leaves costs a point. The mouse button goes
\* down on Start Game and stays down: the session is not played again.
LiveInputs ==
    [Inputs EXCEPT !.seconds = MaxSecondsLive, !.dts = {1120, 2240},
                   !.types = {"red"}, !.places = {OffLane},
                   !.powerups = {"shield"}, !.powerup_places = {OffLane}]

\* SpecSession: one session after the other, each played to its end: red
\* objects and bombs above the basket, the mouse button pressed on Start
\* Game / Play Again or released
SessionInputs ==
    [Inputs EXCEPT !.seconds = MaxSecondsSession, !.mouse = {NoMouse, Click(380)},
                   !.types = {"red", "bomb"}, !.places = {InLane},
                   !.powerups = {None}]

\* SpecProcess: the program run, closed and run again: red objects and
\* bombs above the basket, and the window's close button
ProcessInputs ==
    [Inputs EXCEPT !.seconds = MaxSecondsProcess, !.events = {<<>>, <<"quit">>},
                   !.types = {"red", "bomb"}, !.places = {InLane},
                   !.powerups = {None}]

\* the random draws of one spawn
Draws(I) ==
    {[column |-> p.column, offset |-> p.offset, type |-> t, powerup |-> pu,
      powerup_x |-> q.column * (SCREEN_WIDTH \div SPAWN_POSITION_VARIANCE) + q.offset] :
        p \in I.places, t \in I.types, pu \in I.powerups, q \in I.powerup_places}
NoDraw == [column |-> 0, offset |-> 0, type |-> "red", powerup |-> None, powerup_x |-> 0]

\* an entry of history
Entry(e, g) ==
    [kind |-> e.kind, type |-> e.obj.type, time |-> g.game_time,
     sm |-> e.post.sm, active |-> e.pre.active]
Entries(events, g) == [i \in 1..Len(events) |-> Entry(events[i], g)]

NoEnt == [kind |-> "none", obj |-> <<>>, arg |-> 0, ret |-> FALSE, n |-> 0]

NoStore ==
    [kind |-> "none", file |-> MissingFile, up |-> FALSE, mem |-> EmptyDict,
     raised |-> "none", op |-> "none", io |-> "none", pre |-> EmptyDict,
     before |-> EmptyDict, synced |-> FALSE, fails |-> 0, ret |-> Ratio(0, 1),
     n |-> 0]

NoCall == [op |-> "none", points |-> 0, mult2 |-> 0, dt |-> 0,
           pre |-> NewScoreManager(0), ret |-> 0, n |-> 0]

\* the buttons a frame's click edge is on: the mouse button is down in the
\* frame and was up in the frame before, and the pointer is on a button of
\* the menu that _handle_input updates, the one of self.state after the
\* events
ClickedOn(g0, events, mouse) ==
    LET shown == HandleEvents(g0, events).state
    IN IF mouse.down /\ ~g0.mouse_pressed_last_frame /\ shown # PLAYING
       THEN {Buttons(shown)[i].id :
                i \in {j \in 1..Len(Buttons(shown)) :
                          collidepoint(ButtonRect(Buttons(shown)[j]), mouse.pos)}}
       ELSE {}

\* The spawns of a session on the clock of its Playing time, game_time:
\* time is the game_time of the tick that spawned last in the session (-1
\* when none has), gap the Playing time between the spawn of this tick and
\* the spawn before it (-1 when this tick spawned nothing, or the first
\* object of the session). g1 is the game after _handle_input, fr the frame
\* before.
SpawnClock(g1, dt, now, fr) ==
    LET prev == IF g1.stats_manager.session_start_time = now THEN -1 ELSE fr.spawn_time
        due == g1.state = PLAYING /\ SpawnDue(UpdateDifficulty(g1, dt), now)
    IN [time |-> IF due THEN g1.game_time + dt ELSE prev,
        gap |-> IF due /\ prev # -1 THEN g1.game_time + dt - prev ELSE -1]

\* the frame that took the game from g0 through g1 (after _handle_input)
\* to g2
FrameOf(dt, g0, events, mouse, g1, g2, spawned, clock) ==
    [dt |-> dt, before |-> g0.state, after_input |-> g1.state,
     spawn_time |-> clock.time, spawn_gap |-> clock.gap,
     clicked_on |-> ClickedOn(g0, events, mouse),
     path |-> <<g0.state>> \o EventStates(g0, events) \o <<g1.state, g2.state>>,
     started |-> IF /\ HandleEvents(g0, events).state \in {MAIN_MENU, GAME_OVER}
                    /\ g1.state = PLAYING
                 THEN <<g1>> ELSE <<>>,
     spawned |-> spawned]

NoFrame == [dt |-> 0, before |-> MAIN_MENU, after_input |-> MAIN_MENU,
            clicked_on |-> {}, spawn_time |-> -1, spawn_gap |-> -1,
            path |-> <<MAIN_MENU>>, started |-> <<>>, spawned |-> 0]

Init ==
    /\ game = NewGame(_load_high_score(-1), -1)
    /\ ticks = 0
    /\ log = <<>>
    /\ history = <<>>
    /\ frame = NoFrame
    /\ process = [n |-> 1, loaded |-> _load_high_score(-1)]
    /\ sm = NewScoreManager(0)
    /\ call = NoCall
    /\ store = NoStore
    /\ ent = NoEnt

\* Game.run, lines 464-476: one iteration of the loop, fed from the sets of
\* I: the clock, _handle_input, then _update_playing when the state is
\* PLAYING. A session starts in the frame whose input ran _start_game.
\* what the mixer was asked to play and the callbacks called are kept for
\* one frame
Quiet(g) == [g EXCEPT !.audio_manager.played = <<>>, !.invoked = <<>>]

\* Game.run: the game after one frame of the loop, _handle_input and then
\* _update (which does nothing unless the state is PLAYING)
FrameStep(g, dt, events, mouse, keys, rnd, now) ==
    LET g1 == _handle_input(Quiet(g),
                            [events |-> events, mouse_down |-> mouse.down,
                             mouse_pos |-> mouse.pos],
                            now)
    IN IF g1.state = PLAYING
       THEN _update_playing([g |-> g1, log |-> <<>>], dt, keys, now, rnd).g
       ELSE g1

Frame(I) ==
    /\ game.running
    /\ UNCHANGED <<process, sm, call, store, ent>>
    /\ \E dt \in I.dts, events \in I.events, mouse \in I.mouse :
        /\ ticks + dt <= I.seconds * 1000
        /\ \E g1 \in {_handle_input(Quiet(game),
                                    [events |-> events, mouse_down |-> mouse.down,
                                     mouse_pos |-> mouse.pos],
                                    ticks + dt)} :
            /\ ticks' = ticks + dt
            /\ \E h \in {IF g1.stats_manager.session_start_time = ticks + dt
                         THEN <<>> ELSE history} :
                IF g1.state = PLAYING
                THEN \E keys \in I.keys :
                       \E rnd \in IF SpawnDue(UpdateDifficulty(g1, dt), ticks + dt)
                                  THEN Draws(I) ELSE {NoDraw} :
                         \E w \in {_update_playing([g |-> g1, log |-> <<>>],
                                                   dt, keys, ticks + dt, rnd)} :
                            /\ game' = w.g
                            /\ log' = w.log
                            /\ history' = h \o Entries(w.log, w.g)
                            /\ frame' = FrameOf(dt, game, events, mouse, g1, w.g,
                                                (IF g1.stats_manager.session_start_time = ticks + dt
                                                 THEN 0 ELSE frame.spawned)
                                                + (IF SpawnDue(UpdateDifficulty(g1, dt), ticks + dt)
                                                   THEN 1 ELSE 0),
                                                SpawnClock(g1, dt, ticks + dt, frame))
                ELSE /\ game' = g1
                     /\ log' = <<>>
                     /\ history' = h
                     /\ frame' = FrameOf(dt, game, events, mouse, g1, g1, frame.spawned,
                                      SpawnClock(g1, dt, ticks + dt, frame))

Next == Frame(Inputs)
Spec == Init /\ [][Next]_vars

NextCombo == Frame(ComboInputs)
SpecCombo == Init /\ [][NextCombo]_vars

NextZero == Frame(ZeroInputs)
SpecZero == Init /\ [][NextZero]_vars

NextTrace == Frame(TraceInputs)
SpecTrace == Init /\ [][NextTrace]_vars

NextShield == Frame(ShieldInputs)
SpecShield == Init /\ [][NextShield]_vars

NextCadence == Frame(CadenceInputs)
SpecCadence == Init /\ [][NextCadence]_vars

NextDescent == Frame(DescentInputs)
SpecDescent == Init /\ [][NextDescent]_vars

\* Game.run, lines 464-476: while self.running the loop goes round again,
\* and clock.tick moves the time on by the length of a frame
Loop(I) ==
    /\ game.running
    /\ \E dt \in I.dts :
          /\ ticks + dt <= I.seconds * 1000
          /\ ticks' = ticks + dt

\* the loop does not stop while it can go round: every frame that can run
\* does run
NextLive == Frame(LiveInputs)
SpecLive == Init /\ [][NextLive]_vars /\ WF_ticks(Loop(LiveInputs))

NextMenu == Frame(MenuInputs)
SpecMenu == Init /\ [][NextMenu]_vars

NextSession == Frame(SessionInputs)
SpecSession == Init /\ [][NextSession]_vars

\* the number of times the program is started
MaxLaunches == 2

\* Game.run has left its loop (lines 478-480) and the program is started
\* again: Game.__init__ with what the run before left on disk, the high
\* score file and the statistics file (written by end_session whenever the
\* statistics change); pygame's clock starts at 0.
Launch ==
    /\ ~game.running
    /\ process.n < MaxLaunches
    /\ game' = [NewGame(_load_high_score(game.highscore_file), game.highscore_file)
                   EXCEPT !.stats_manager.stats = game.stats_manager.stats]
    /\ ticks' = 0
    /\ log' = <<>>
    /\ history' = <<>>
    /\ frame' = NoFrame
    /\ process' = [n |-> process.n + 1,
                   loaded |-> _load_high_score(game.highscore_file)]
    /\ UNCHANGED <<sm, call, store, ent>>

NextProcess ==
    \/ Frame(ProcessInputs)
    \/ Launch
SpecProcess == Init /\ [][NextProcess]_vars

NextPower == Frame(PowerInputs)
SpecPower == Init /\ [][NextPower]_vars

\* SpecFall: red objects and Slow Motion power-ups, above the basket and
\* beside it, so that both kinds fall past the lower edge of the screen (an
\* object in its third frame, a power-up in its fourth); and, apart from
\* the game, one FallingObject as the tests make it, with its y set by hand
\* and asked is_off_screen once.
FallInputs ==
    [Inputs EXCEPT !.seconds = MaxSecondsFall, !.types = {"red"},
                   !.powerups = {None, "slow_mo"},
                   !.powerup_places = {InLane, OffLane}]
ObjectsTried ==
    {FallingObject(100 * Px, y * Px, "red", Milli(OBJECT_BASE_SPEED)) :
        y \in {100, SCREEN_HEIGHT, SCREEN_HEIGHT + 10}}
InitFall ==
    /\ game = NewGame(_load_high_score(-1), -1)
    /\ ticks = 0
    /\ log = <<>>
    /\ history = <<>>
    /\ frame = NoFrame
    /\ process = [n |-> 1, loaded |-> _load_high_score(-1)]
    /\ sm = NewScoreManager(0)
    /\ call = NoCall
    /\ store = NoStore
    /\ ent \in {NoEnt} \cup {[NoEnt EXCEPT !.kind = "object", !.obj = o] : o \in ObjectsTried}

\* obj.is_off_screen()
IsOffScreen ==
    /\ ent.kind = "object" /\ ent.n = 0
    /\ ent' = [ent EXCEPT !.ret = is_off_screen(ent.obj), !.n = 1]
    /\ UNCHANGED <<game, ticks, log, history, frame, process, sm, call, store>>

NextFall ==
    \/ ent.kind = "none" /\ Frame(FallInputs)
    \/ IsOffScreen
SpecFall == InitFall /\ [][NextFall]_vars

\* ------------------------------------------------------------ ScoreManager, call by call
\* SpecScore drives a ScoreManager through its public methods in any order,
\* the way tests/test_game.py does; the game stands still. The manager
\* starts as a run of 0..MaxCombo catches of Red objects leaves it, and
\* takes up to MaxCalls calls.
MaxCombo == 11
MaxCalls == 3

\* the arguments tried: base points and multipliers (in halves), penalties,
\* and frame times in milliseconds
ArgsTried == {<<10, 2>>, <<0, 2>>, <<3, 3>>, <<3, 5>>}
PenaltiesTried == {MISS_PENALTY, BOMB_DAMAGE, STARTING_SCORE}
DtsTried == {500, COMBO_TIMEOUT}

\* the manager after n catches of Red objects in a row (game.py:246-250)
RECURSIVE Catches(_, _)
Catches(m, n) ==
    IF n = 0 THEN m
    ELSE Catches(add_points(m, Points("red"), get_combo_multiplier(m)), n - 1)

InitScore ==
    /\ game = NewGame(0, -1)
    /\ ticks = 0
    /\ log = <<>>
    /\ history = <<>>
    /\ frame = NoFrame
    /\ process = [n |-> 1, loaded |-> 0]
    /\ sm \in {Catches(NewScoreManager(0), n) : n \in 0..MaxCombo}
    /\ call = NoCall
    /\ store = NoStore
    /\ ent = NoEnt

Called(op, points, mult2, dt, ret) ==
    [op |-> op, points |-> points, mult2 |-> mult2, dt |-> dt, pre |-> sm,
     ret |-> ret, n |-> call.n + 1]
Still == UNCHANGED <<game, ticks, log, history, frame, process, store, ent>>

AddPoints ==
    /\ call.n < MaxCalls
    /\ \E args \in ArgsTried :
        /\ sm' = add_points(sm, args[1], args[2])
        /\ call' = Called("add_points", args[1], args[2], 0,
                          ActualPoints(args[1], args[2]))
    /\ Still

SubtractPoints ==
    /\ call.n < MaxCalls
    /\ \E points \in PenaltiesTried :
        /\ sm' = subtract_points(sm, points)
        /\ call' = Called("subtract_points", points, 0, 0, 0)
    /\ Still

ResetCombo ==
    /\ call.n < MaxCalls
    /\ sm' = reset_combo(sm)
    /\ call' = Called("reset_combo", 0, 0, 0, 0)
    /\ Still

UpdateComboTimer ==
    /\ call.n < MaxCalls
    /\ \E dt \in DtsTried :
        /\ sm' = update_combo_timer(sm, dt)
        /\ call' = Called("update_combo_timer", 0, 0, dt, 0)
    /\ Still

GetComboMultiplier ==
    /\ call.n < MaxCalls
    /\ sm' = sm
    /\ call' = Called("get_combo_multiplier", 0, 0, 0, get_combo_multiplier(sm))
    /\ Still

Reset ==
    /\ call.n < MaxCalls
    /\ sm' = reset(sm)
    /\ call' = Called("reset", 0, 0, 0, 0)
    /\ Still

NextScore ==
    \/ AddPoints
    \/ SubtractPoints
    \/ ResetCombo
    \/ UpdateComboTimer
    \/ GetComboMultiplier
    \/ Reset
SpecScore == InitScore /\ [][NextScore]_vars

\* ------------------------------------------------------------ the difficulty ramp, step by step
\* SpecRamp calls _increase_difficulty again and again on a game that has
\* just been started, as _update_playing does once every
\* DIFFICULTY_INCREASE_INTERVAL seconds of play; nothing else moves.
MaxRamps == 120

InitRamp ==
    /\ game = _start_game(NewGame(0, -1), 0)
    /\ ticks = 0
    /\ log = <<>>
    /\ history = <<>>
    /\ frame = NoFrame
    /\ process = [n |-> 1, loaded |-> 0]
    /\ sm = NewScoreManager(0)
    /\ call = NoCall
    /\ store = NoStore
    /\ ent = NoEnt

IncreaseDifficulty ==
    /\ call.n < MaxRamps
    /\ game' = _increase_difficulty(game)
    /\ call' = [NoCall EXCEPT !.op = "_increase_difficulty", !.n = call.n + 1]
    /\ UNCHANGED <<ticks, log, history, frame, process, sm, store, ent>>

NextRamp == IncreaseDifficulty
SpecRamp == InitRamp /\ [][NextRamp]_vars

\* ------------------------------------------------------------ properties of the ScoreManager
\* ------------------------------------------------- the managers' data files
\* the calls made on one manager
MaxStoreCalls == 4

\* the files a manager is started on: none, one that cannot be opened, text
\* that does not parse, JSON that is a list, digits (a high score, and also
\* the JSON number 12), and a JSON object that holds some of the keys
FilesTried(kind) ==
    {MissingFile, LockedFile(IntText(12)), TextFile(GarbageText),
     TextFile(ArrayText), TextFile(IntText(12)),
     TextFile(ObjectText(
        IF kind = "settings" THEN [show_fps |-> PyBool(TRUE)]
        ELSE [games_played |-> PyInt(10), total_score |-> PyInt(500),
              objects_caught |-> PyInt(80), objects_missed |-> PyInt(20)]))}
IoTried == {"ok", "open_fails", "write_fails"}
SetsTried == {<<"sound_volume", PyFloat(5)>>, <<"difficulty", PyStr("hard")>>}
TogglesTried == {"show_fps", "vsync"}
SessionsTried == {<<100, 5, 20, 5>>, <<0, 0, 0, 3>>}

InitStore ==
    /\ game = NewGame(0, -1)
    /\ ticks = 0
    /\ log = <<>>
    /\ history = <<>>
    /\ frame = NoFrame
    /\ process = [n |-> 1, loaded |-> 0]
    /\ sm = NewScoreManager(0)
    /\ call = NoCall
    /\ \E kind \in {"score", "statistics", "settings"} :
         \E f \in FilesTried(kind) :
            store = [NoStore EXCEPT !.kind = kind, !.file = f]
    /\ ent = NoEnt

StoreStill == UNCHANGED <<game, ticks, log, history, frame, process, sm, call, ent>>

\* ScoreManager(), StatisticsManager() or SettingsManager(): the constructor
\* loads the file; an exception it raises leaves no manager
Loaded(kind, f) ==
    CASE kind = "score" ->
            LET o == LoadHighScore(f)
            IN [raised |-> o.raised, ret |-> [high_score |-> PyInt(o.ret)]]
      [] kind = "statistics" -> _load_statistics(f)
      [] kind = "settings" -> _load_settings(f)
Construct ==
    /\ store.n < MaxStoreCalls
    /\ StoreStill
    /\ \E o \in {Loaded(store.kind, store.file)} :
         store' = [store EXCEPT !.up = (o.raised = "none"),
                                !.mem = IF o.raised = "none" THEN o.ret ELSE EmptyDict,
                                !.raised = o.raised, !.op = "construct",
                                !.io = "none", !.pre = EmptyDict,
                                !.before = store.mem,
                                !.synced = store.synced /\ o.raised = "none",
                                !.ret = Ratio(0, 1),
                                !.n = store.n + 1]

\* a call that changes the dictionary to m and then saves it, with outcome r
Saved(op, m, r, io) ==
    [store EXCEPT !.mem = r.mem, !.file = r.file, !.raised = r.raised, !.op = op,
                  !.io = io, !.pre = m, !.before = store.mem,
                  !.synced = (io = "ok"),
                  !.fails = store.fails + (IF io = "ok" THEN 0 ELSE 1),
                  !.ret = Ratio(0, 1),
                  !.n = store.n + 1]

\* SettingsManager.set(key, value)
Set ==
    /\ store.kind = "settings" /\ store.up /\ store.n < MaxStoreCalls
    /\ StoreStill
    /\ \E kv \in SetsTried, io \in IoTried :
         \E m \in {set(store.mem, kv[1], kv[2])} :
            store' = Saved("set", m, save_settings(m, store.file, io), io)

\* SettingsManager.toggle(key)
Toggle ==
    /\ store.kind = "settings" /\ store.up /\ store.n < MaxStoreCalls
    /\ StoreStill
    /\ \E key \in TogglesTried, io \in IoTried :
         \E m \in {toggle(store.mem, key)} :
            store' = Saved("toggle", m, save_settings(m, store.file, io), io)

\* StatisticsManager.end_session on the dictionary d (no session started:
\* session_start_time is None): the sums and the maximum are those of
\* end_session above, last_played is the time of the call
EndSessionOn(d, score, best_combo, objects_caught, objects_missed) ==
    LET r == end_session([stats |-> [games_played |-> d.games_played.n,
                                     total_score |-> d.total_score.n,
                                     total_time_seconds |-> d.total_time_seconds.n,
                                     best_combo |-> d.best_combo.n,
                                     objects_caught |-> d.objects_caught.n,
                                     objects_missed |-> d.objects_missed.n],
                          session_start_time |-> -1],
                         score, best_combo, objects_caught, objects_missed, 0).stats
    IN [k \in DOMAIN d |-> IF k = "last_played" THEN PyStr("isoformat")
                           ELSE IF k \in DOMAIN r THEN PyInt(r[k])
                           ELSE d[k]]
EndSession ==
    /\ store.kind = "statistics" /\ store.up /\ store.n < MaxStoreCalls
    /\ StoreStill
    /\ \E a \in SessionsTried, io \in IoTried :
         \E m \in {EndSessionOn(store.mem, a[1], a[2], a[3], a[4])} :
            store' = Saved("end_session", m, save_statistics(m, store.file, io), io)

\* ScoreManager.add_points on a fresh session of the manager: the high score
\* follows the score, nothing is saved
ScorePoints ==
    /\ store.kind = "score" /\ store.up /\ store.n < MaxStoreCalls
    /\ StoreStill
    /\ \E points \in {5, 30} :
         \E h \in {add_points(NewScoreManager(store.mem.high_score.n), points, 2).high_score} :
            store' = [store EXCEPT !.mem = [high_score |-> PyInt(h)],
                                   !.raised = "none", !.op = "add_points",
                                   !.io = "none", !.pre = EmptyDict,
                                   !.before = store.mem,
                                   !.synced = store.synced /\ h = store.mem.high_score.n,
                                   !.ret = Ratio(0, 1),
                                   !.n = store.n + 1]

\* ScoreManager.save_high_score()
SaveHighScore ==
    /\ store.kind = "score" /\ store.up /\ store.n < MaxStoreCalls
    /\ StoreStill
    /\ \E io \in IoTried :
         store' = Saved("save_high_score", store.mem,
                        save_high_score(store.mem, store.file, io), io)

\* a getter of the statistics manager, with outcome o
Got(op, o) ==
    [store EXCEPT !.raised = o.raised, !.op = op, !.io = "none", !.pre = EmptyDict,
                  !.before = store.mem, !.ret = o.ret, !.n = store.n + 1]

\* StatisticsManager.get_average_score()
GetAverageScore ==
    /\ store.kind = "statistics" /\ store.up /\ store.n < MaxStoreCalls
    /\ StoreStill
    /\ store' = Got("get_average_score", get_average_score(store.mem))

\* StatisticsManager.get_catch_rate()
GetCatchRate ==
    /\ store.kind = "statistics" /\ store.up /\ store.n < MaxStoreCalls
    /\ StoreStill
    /\ store' = Got("get_catch_rate", get_catch_rate(store.mem))

NextStore ==
    \/ Construct \/ Set \/ Toggle \/ EndSession \/ ScorePoints \/ SaveHighScore
    \/ GetAverageScore \/ GetCatchRate
SpecStore == InitStore /\ [][NextStore]_vars

\* ------------------------------------------------------------ the basket
\* the calls of Basket.update made on one basket
MaxBasketCalls == 4

\* a basket as the game makes it (game.py:52-55) and as the tests do
BasketsTried ==
    {Basket((SCREEN_WIDTH \div 2 - BASKET_WIDTH \div 2) * Px, BasketY),
     Basket(100 * Px, 600 * Px)}
KeysTried == {"none", "left", "right", "both"}
BasketDtsTried == {0, 16, 500, 1120}

InitBasket ==
    /\ game = NewGame(0, -1)
    /\ ticks = 0
    /\ log = <<>>
    /\ history = <<>>
    /\ frame = NoFrame
    /\ process = [n |-> 1, loaded |-> 0]
    /\ sm = NewScoreManager(0)
    /\ call = NoCall
    /\ store = NoStore
    /\ \E b \in BasketsTried : ent = [NoEnt EXCEPT !.kind = "basket", !.obj = b]

EntStill == UNCHANGED <<game, ticks, log, history, frame, process, sm, call, store>>

\* basket.update(keys, dt)
BasketUpdateCall ==
    /\ ent.kind = "basket" /\ ent.n < MaxBasketCalls
    /\ EntStill
    /\ \E keys \in KeysTried, dt \in BasketDtsTried :
         ent' = [ent EXCEPT !.obj = Basket_update(ent.obj, keys, dt),
                            !.arg = dt, !.n = ent.n + 1]

NextBasket == BasketUpdateCall
SpecBasket == InitBasket /\ [][NextBasket]_vars

\* ------------------------------------------------------------ the particles
\* SpecParticles drives one ParticleSystem call by call: it starts empty, as
\* the game makes it, or holding the particle of the tests (lifetime 100 ms).
\* ent.obj holds the list (particles), what the last update's p.update calls
\* returned (reports), the ids of the particles that have reported not
\* alive (dead) and the next id to give out (next).
MaxParticleCalls == 4
MaxEmit == 2
ParticleDtsTried == {50, 100, 400}

InitParticles ==
    /\ game = NewGame(0, -1)
    /\ ticks = 0
    /\ log = <<>>
    /\ history = <<>>
    /\ frame = NoFrame
    /\ process = [n |-> 1, loaded |-> 0]
    /\ sm = NewScoreManager(0)
    /\ call = NoCall
    /\ store = NoStore
    /\ \E ps \in {<<>>, <<Particle(1, 100)>>} :
         ent = [NoEnt EXCEPT !.kind = "particles",
                             !.obj = [particles |-> ps, reports |-> <<>>,
                                      dead |-> {}, next |-> Len(ps) + 1]]

\* particle_system.emit(x, y, color, count)
Emit ==
    /\ ent.kind = "particles" /\ ent.n < MaxParticleCalls
    /\ EntStill
    /\ \E count \in 1..MaxEmit :
         ent' = [ent EXCEPT !.obj.particles = emit(ent.obj.particles, ent.obj.next, count),
                            !.obj.next = ent.obj.next + count,
                            !.obj.reports = <<>>,
                            !.arg = count, !.n = ent.n + 1]

\* particle_system.update(dt)
ParticlesUpdate ==
    /\ ent.kind = "particles" /\ ent.n < MaxParticleCalls
    /\ EntStill
    /\ \E dt \in ParticleDtsTried :
         \E us \in {Updates(ent.obj.particles, dt)} :
            ent' = [ent EXCEPT !.obj.particles = ParticleSystem_update(ent.obj.particles, dt),
                               !.obj.reports = us,
                               !.obj.dead = ent.obj.dead \cup
                                    {us[i].p.id : i \in {j \in 1..Len(us) : ~us[j].alive}},
                               !.arg = dt, !.n = ent.n + 1]

NextParticles == Emit \/ ParticlesUpdate
SpecParticles == InitParticles /\ [][NextParticles]_vars

\* SpecAudio: the game run with the audio as it may come out of
\* AudioManager.__init__ and load_all_sounds: the mixer initialized and every
\* sound loaded, the mixer initialized and only the sounds of the catches
\* loaded (no file for the others, and the placeholder failed), or the mixer
\* not initialized. Red objects and bombs, above the basket and beside it,
\* each spawned with a shield above the basket: clicks, catches, a combo
\* above 2, misses with and without the shield, a power-up and a game over
\* all ask for their sounds.
AudiosTried ==
    {AudioManager(TRUE, Sounds), AudioManager(TRUE, {"catch_red", "catch_bomb"}),
     AudioManager(FALSE, Sounds)}

AudioInputs ==
    [Inputs EXCEPT !.seconds = MaxSecondsAudio, !.types = {"red", "bomb"},
                   !.places = {InLane, OffLane}, !.powerups = {"shield"}]

InitAudio ==
    /\ \E a \in AudiosTried :
         game = [NewGame(_load_high_score(-1), -1) EXCEPT !.audio_manager = a]
    /\ ticks = 0
    /\ log = <<>>
    /\ history = <<>>
    /\ frame = NoFrame
    /\ process = [n |-> 1, loaded |-> _load_high_score(-1)]
    /\ sm = NewScoreManager(0)
    /\ call = NoCall
    /\ store = NoStore
    /\ ent = NoEnt

NextAudio == Frame(AudioInputs)
SpecAudio == InitAudio /\ [][NextAudio]_vars

\* C1: the score is never negative, whatever calls were made, and
\* subtract_points(n) leaves max(0, score - n): score - n when the score
\* covers n, and 0 when it does not. The same is asked of the score of the
\* game and of every step of a Playing tick that subtracts.
C1_ScoreNeverNegative ==
    /\ sm.score >= 0
    /\ call.op = "subtract_points" =>
        sm.score = IF call.pre.score >= call.points
                   THEN call.pre.score - call.points ELSE 0
    /\ game.score_manager.score >= 0
    /\ \A i \in 1..Len(log) : log[i].post.sm.score >= 0
C1_Clamped ==
    /\ call.op = "subtract_points"
    /\ call.pre.score > 0
    /\ call.pre.score < call.points
    /\ sm.score = 0

\* C3: get_combo_multiplier returns 1.0 for a combo of 0..2, 1.5 for 3..4,
\* 2.0 for 5..9 and 2.5 from 10 on (in halves: 2, 3, 4, 5), whatever the
\* other fields hold, and the manager is the same after the call.
C3_ComboMultiplierSteps ==
    call.op = "get_combo_multiplier" =>
        /\ call.pre.combo \in 0..2 => call.ret = 2
        /\ call.pre.combo \in 3..4 => call.ret = 3
        /\ call.pre.combo \in 5..9 => call.ret = 4
        /\ call.pre.combo >= 10 => call.ret = 5
        /\ sm = call.pre
C3_TopStep ==
    /\ call.op = "get_combo_multiplier"
    /\ call.pre.combo = 10
    /\ call.pre.score # STARTING_SCORE
    /\ call.ret = 5

\* C4: add_points(p, m) with p >= 0 and m >= 0 adds floor(p * m) to the
\* score and returns it, adds 1 to combo, makes best_combo the larger of
\* best_combo and the new combo and restarts the countdown at COMBO_TIMEOUT;
\* add_points(10, 1.0) on a fresh manager gives score 20 and combo 1.
\* floor(p * m) is the k with 2k <= p * mult2 < 2k + 2.
C4_AddPoints ==
    call.op = "add_points" =>
        /\ \E k \in 0..(call.points * call.mult2) :
            /\ 2 * k <= call.points * call.mult2
            /\ call.points * call.mult2 < 2 * k + 2
            /\ sm.score = call.pre.score + k
            /\ call.ret = k
        /\ sm.combo = call.pre.combo + 1
        /\ sm.best_combo = IF call.pre.best_combo >= sm.combo
                           THEN call.pre.best_combo ELSE sm.combo
        /\ sm.combo_timer = COMBO_TIMEOUT
        /\ sm.is_combo_active
        /\ (call.pre = NewScoreManager(0) /\ call.points = 10 /\ call.mult2 = 2)
            => (sm.score = 20 /\ sm.combo = 1)
C4_FloorTaken ==
    /\ call.op = "add_points"
    /\ call.points = 3
    /\ call.mult2 = 5
    /\ call.ret = 7
    /\ sm.score = call.pre.score + 7
    /\ sm.best_combo > call.pre.best_combo

\* ------------------------------------------------------------ properties of a Playing tick
\* C2: when a miss penalty or a caught bomb takes the score to 0 at some
\* point of a Playing tick, the state is GAME_OVER at the end of that tick,
\* whatever else the tick resolves before or after it.
C2_ZeroEndsSession ==
    (\E i \in 1..Len(log) :
        /\ log[i].kind \in {"miss", "bomb"}
        /\ log[i].pre.sm.score > 0
        /\ log[i].post.sm.score = 0)
    => game.state = GAME_OVER

\* the step of log[i] took its object, and nothing else, out of the live
\* objects
Removed(e) ==
    \E k \in 1..Len(e.pre.objs) :
        /\ e.pre.objs[k] = e.obj
        /\ e.post.objs = RemoveAt(e.pre.objs, k)

\* C5: the collision step of a bomb leaves score = max(0, score -
\* BOMB_DAMAGE), never more than before, and combo 0, adds 1 to the miss
\* counter, leaves the catch counter alone and takes the bomb out of the
\* live objects, whatever power-up is active.
C5_BombCaught ==
    \A i \in 1..Len(log) :
        log[i].kind = "bomb" =>
            /\ log[i].post.sm.score =
                   IF log[i].pre.sm.score >= BOMB_DAMAGE
                   THEN log[i].pre.sm.score - BOMB_DAMAGE ELSE 0
            /\ log[i].post.sm.score <= log[i].pre.sm.score
            /\ log[i].post.sm.combo = 0
            /\ log[i].post.missed = log[i].pre.missed + 1
            /\ log[i].post.caught = log[i].pre.caught
            /\ Removed(log[i])
C5_BombUnderShield ==
    \E i \in 1..Len(log) :
        /\ log[i].kind = "bomb"
        /\ log[i].pre.active = "shield"
        /\ log[i].pre.sm.combo > 0
        /\ log[i].post.sm.combo = 0
        /\ log[i].post.sm.score = log[i].pre.sm.score - BOMB_DAMAGE

\* C9: when an object goes off-screen in a Playing tick, the score becomes
\* max(0, score - MISS_PENALTY) unless Shield is the active power-up (and is
\* then left alone), the miss counter grows by exactly 1 either way, and
\* the object is taken out of the live objects.
C9_Miss ==
    \A i \in 1..Len(log) :
        log[i].kind = "miss" =>
            /\ log[i].pre.active # "shield" =>
                 log[i].post.sm.score =
                     IF log[i].pre.sm.score >= MISS_PENALTY
                     THEN log[i].pre.sm.score - MISS_PENALTY ELSE 0
            /\ log[i].pre.active = "shield" =>
                 log[i].post.sm.score = log[i].pre.sm.score
            /\ log[i].post.missed = log[i].pre.missed + 1
            /\ Removed(log[i])
C9_MissUnderShield ==
    \E i \in 1..Len(log) :
        /\ log[i].kind = "miss"
        /\ log[i].pre.active = "shield"
        /\ log[i].obj.y > SCREEN_HEIGHT * Px
        /\ log[i].post.missed = log[i].pre.missed + 1
        /\ log[i].post.sm = log[i].pre.sm

\* C10: an object whose y exceeds the screen height is removed in that
\* tick, and it is counted as a miss only when it is not a bomb: a bomb
\* that leaves the screen changes neither the score, the combo nor the miss
\* counter.
C10_BombLeavesUncounted ==
    /\ \A k \in 1..Len(game.falling_objects) :
          game.falling_objects[k].y <= SCREEN_HEIGHT * Px
    /\ \A i \in 1..Len(log) :
          (log[i].kind = "miss" /\ IsBomb(log[i].obj.type)) =>
              /\ log[i].post.sm.score = log[i].pre.sm.score
              /\ log[i].post.sm.combo = log[i].pre.sm.combo
              /\ log[i].post.missed = log[i].pre.missed

\* the points the catch of log[i] added are floor(p * mult2 / 2), p the
\* base points of the object: the k with 2k <= p * mult2 < 2k + 2
Added(e, mult2) ==
    \E k \in 0..(Points(e.obj.type) * mult2) :
        /\ 2 * k <= Points(e.obj.type) * mult2
        /\ Points(e.obj.type) * mult2 < 2 * k + 2
        /\ e.post.sm.score = e.pre.sm.score + k

\* C6: the catch of a non-bomb object adds floor(basePoints *
\* effectiveMultiplier), the effective multiplier being the combo
\* multiplier of the combo held just before the catch, doubled exactly when
\* Double Points is the active power-up at the catch; the catch counter
\* grows by 1 and the object is taken out of the live objects.
C6_ObjectCaught ==
    \A i \in 1..Len(log) :
        log[i].kind = "catch" =>
            /\ log[i].pre.active = "double_points" =>
                 Added(log[i], 2 * get_combo_multiplier(log[i].pre.sm))
            /\ log[i].pre.active # "double_points" =>
                 Added(log[i], get_combo_multiplier(log[i].pre.sm))
            /\ log[i].post.caught = log[i].pre.caught + 1
            /\ Removed(log[i])
C6_DoubledCombo ==
    \E i \in 1..Len(log) :
        /\ log[i].kind = "catch"
        /\ log[i].obj.type = "yellow"
        /\ log[i].pre.active = "double_points"
        /\ log[i].pre.sm.combo = 3
        /\ log[i].post.sm.score = log[i].pre.sm.score + 9

\* C7, as stated: in a run of catches from combo 0, within the timeout and
\* without Double Points, the first two catches are scored at 1.0 and the
\* third (the catch made with two catches behind it) at 1.5: floor(p * 1.5).
C7_ThirdAtOneAndHalf ==
    \A i \in 1..Len(log) :
        (log[i].kind = "catch" /\ log[i].pre.active # "double_points") =>
            /\ log[i].pre.sm.combo \in {0, 1} => Added(log[i], 2)
            /\ log[i].pre.sm.combo = 2 => Added(log[i], 3)

\* C7, amended: in such a run the first three catches are scored at 1.0
\* and the fourth at 1.5: the fourth catch of an object worth p points adds
\* floor(p * 1.5).
C7_FourthAtOneAndHalf ==
    \A i \in 1..Len(log) :
        (log[i].kind = "catch" /\ log[i].pre.active # "double_points") =>
            /\ log[i].pre.sm.combo \in {0, 1, 2} => Added(log[i], 2)
            /\ log[i].pre.sm.combo = 3 => Added(log[i], 3)
C7_FourthCatch ==
    \E i \in 1..Len(log) :
        /\ log[i].kind = "catch"
        /\ log[i].obj.type = "yellow"
        /\ log[i].pre.active # "double_points"
        /\ log[i].pre.sm.combo = 3
        /\ log[i].pre.sm.is_combo_active
        /\ log[i].post.sm.score = log[i].pre.sm.score + 4

\* ------------------------------------------------------------ properties of a session
\* the session began with three catches of Red objects, no power-up active
ThreeReds ==
    /\ Len(history) >= 3
    /\ \A i \in 1..3 :
        /\ history[i].kind = "catch"
        /\ history[i].type = "red"
        /\ history[i].active = None
\* with less than COMBO_TIMEOUT of play time from each to the next
InQuickSuccession ==
    \A i \in 1..2 : history[i + 1].time - history[i].time < COMBO_TIMEOUT

\* C8: from a freshly started session (score 10, combo 0, no power-up),
\* three Red objects caught with less than COMBO_TIMEOUT of play time
\* between catches leave combo 3, combo multiplier 1.5 and score 13; a miss
\* that follows with no Shield active leaves score 12 and combo 0.
C8_Trace ==
    (ThreeReds /\ InQuickSuccession) =>
        /\ history[3].sm.combo = 3
        /\ get_combo_multiplier(history[3].sm) = 3
        /\ history[3].sm.score = 13
        /\ (Len(history) >= 4 /\ history[4].kind = "miss"
                /\ history[4].active # "shield") =>
              /\ history[4].sm.score = 12
              /\ history[4].sm.combo = 0
\* the position in history of the session's last catch (0: none yet)
LastCatch ==
    IF \E i \in 1..Len(history) : history[i].kind = "catch"
    THEN CHOOSE i \in 1..Len(history) :
            /\ history[i].kind = "catch"
            /\ \A j \in (i + 1)..Len(history) : history[j].kind # "catch"
    ELSE 0

\* C11: every catch sets the countdown to COMBO_TIMEOUT; once the play time
\* since the session's last catch has reached COMBO_TIMEOUT the combo is 0
\* at the end of the tick; and a Playing tick that resolves no catch, miss
\* or bomb and ends with the countdown still positive leaves the combo as
\* it was.
C11_ComboCountdown ==
    /\ [](/\ \A i \in 1..Len(log) :
               log[i].kind = "catch" =>
                   /\ log[i].post.sm.combo_timer = COMBO_TIMEOUT
                   /\ log[i].post.sm.is_combo_active
          /\ (LastCatch > 0
                 /\ game.game_time - history[LastCatch].time >= COMBO_TIMEOUT)
              => game.score_manager.combo = 0)
    /\ [][(/\ frame'.before = PLAYING
           /\ frame'.after_input = PLAYING
           /\ \A i \in 1..Len(log') : log'[i].kind \notin {"catch", "miss", "bomb"}
           /\ game'.score_manager.combo_timer > 0)
          => game'.score_manager.combo = game.score_manager.combo]_vars
C11_TimedOut ==
    /\ game.state = PLAYING
    /\ LastCatch > 0
    /\ LastCatch = Len(history)
    /\ history[LastCatch].sm.combo = 2
    /\ game.game_time - history[LastCatch].time >= COMBO_TIMEOUT
    /\ game.score_manager.combo_timer <= 0
    /\ game.score_manager.combo = 0

\* ------------------------------------------------------------ properties of the power-ups
\* the power-ups caught in the last tick, as positions of log
PowerUpsCaught == {i \in 1..Len(log) : log[i].kind = "powerup"}

\* C12: one power-up at most is active, and the catch of a power-up makes
\* the caught type the active one with exactly POWERUP_DURATION left,
\* whatever was active before and however much of it was left; a tick that
\* caught power-ups ends with the last one caught active and
\* POWERUP_DURATION left.
C12_PowerUpOverwrites ==
    /\ game.active_powerup \in PowerUpType \cup {None}
    /\ \A i \in PowerUpsCaught :
          /\ log[i].post.active = log[i].obj.type
          /\ log[i].post.timer = POWERUP_DURATION
    /\ PowerUpsCaught # {} =>
          \E i \in PowerUpsCaught :
              /\ \A j \in PowerUpsCaught : j <= i
              /\ game.active_powerup = log[i].obj.type
              /\ game.powerup_timer = POWERUP_DURATION
C12_Replaced ==
    \E i \in PowerUpsCaught :
        /\ log[i].pre.active = "shield"
        /\ log[i].pre.timer > 0
        /\ log[i].pre.timer < POWERUP_DURATION
        /\ log[i].obj.type = "slow_mo"
        /\ game.active_powerup = "slow_mo"
        /\ game.powerup_timer = POWERUP_DURATION

\* C13: at the end of every tick an active power-up has time left; a
\* Playing tick that catches no power-up takes its dt off the time left of
\* the active power-up and takes the power-up away exactly when that leaves
\* 0 or less; and the time left never grows in a frame that catches no
\* power-up.
C13_PowerUpRunsDown ==
    /\ [](game.active_powerup # None => game.powerup_timer > 0)
    /\ [][(\A i \in 1..Len(log') : log'[i].kind # "powerup") =>
            /\ game'.powerup_timer <= game.powerup_timer
            /\ (frame'.before = PLAYING /\ frame'.after_input = PLAYING
                    /\ game.active_powerup # None) =>
                 /\ game'.powerup_timer = game.powerup_timer - frame'.dt
                 /\ game'.active_powerup =
                        IF game.powerup_timer - frame'.dt <= 0
                        THEN None ELSE game.active_powerup]_vars
C13_RanOut ==
    /\ game.state = PLAYING
    /\ game.active_powerup = None
    /\ game.powerup_timer < 0
    /\ game.powerup_timer + frame.dt > 0

\* s is obj moved down by the distance of a tick of dt at the speed
\* multiplier mult2 (in halves)
Advanced(s, obj, mult2, dt) == s = [obj EXCEPT !.y = obj.y + Fall(obj.speed, mult2, dt)]

\* what the last tick resolved of the given kinds, as the objects were then
Resolved(events, kinds) ==
    {events[i].obj : i \in {j \in 1..Len(events) : events[j].kind \in kinds}}
Live(seq) == {seq[i] : i \in 1..Len(seq)}

\* C14: in a Playing tick every live object and every live power-up moves
\* down by speed * speedMultiplier * dt * 60, the multiplier being 0.5 when
\* Slow Motion is the active power-up and 1.0 when it is not: it is found,
\* so moved, among the live ones or among those the tick resolved.
C14_AllSlowed ==
    [][(frame'.before = PLAYING /\ frame'.after_input = PLAYING) =>
        /\ \A i \in 1..Len(game.falling_objects) :
              \E s \in Live(game'.falling_objects)
                        \cup Resolved(log', {"catch", "bomb", "miss"}) :
                  Advanced(s, game.falling_objects[i], SpeedMultiplier(game), frame'.dt)
        /\ \A i \in 1..Len(game.powerups) :
              \E s \in Live(game'.powerups)
                        \cup Resolved(log', {"powerup", "powerup_off"}) :
                  Advanced(s, game.powerups[i], SpeedMultiplier(game), frame'.dt)]_vars

\* ------------------------------------------------------------ properties of the difficulty ramp
\* object_speed is above OBJECT_MAX_SPEED
AboveMaxSpeed(g) ==
    \/ g.object_speed > Milli(OBJECT_MAX_SPEED)
    \/ g.object_speed = Milli(OBJECT_MAX_SPEED) /\ g.object_speed_err > 0

\* C15: after any number of ramp steps the fall speed given to new spawns
\* is at most OBJECT_MAX_SPEED and the spawn delay at least
\* SPAWN_DELAY_MIN, and no ramp step lowers the speed or raises the delay.
C15_RampBounds ==
    /\ [](/\ ~AboveMaxSpeed(game)
          /\ game.spawn_delay >= SPAWN_DELAY_MIN)
    /\ [][/\ game'.object_speed >= game.object_speed
          /\ game'.spawn_delay <= game.spawn_delay]_vars

\* ------------------------------------------------------------ properties of the screens
\* the changes of self.state made in the last frame, as pairs <<from, to>>
Changes ==
    {<<frame.path[k], frame.path[k + 1]>> :
        k \in {j \in 1..(Len(frame.path) - 1) : frame.path[j] # frame.path[j + 1]}}

Listed ==
    {<<MAIN_MENU, PLAYING>>, <<PLAYING, PAUSED>>, <<PAUSED, PLAYING>>,
     <<PLAYING, GAME_OVER>>, <<GAME_OVER, PLAYING>>, <<GAME_OVER, MAIN_MENU>>,
     <<STATISTICS, MAIN_MENU>>, <<SETTINGS, MAIN_MENU>>,
     <<MAIN_MENU, STATISTICS>>, <<MAIN_MENU, SETTINGS>>}

\* C16, as stated: the game starts in the main menu and every change of
\* state is MainMenu->Playing, Playing->Paused, Paused->Playing,
\* Playing->GameOver (with the score at 0), GameOver->Playing,
\* GameOver->MainMenu, Statistics->MainMenu, Settings->MainMenu,
\* MainMenu->Statistics or MainMenu->Settings.
C16_Transitions ==
    /\ (ticks = 0 /\ process.n = 1) => game.state = MAIN_MENU
    /\ Changes \subseteq Listed
    /\ <<PLAYING, GAME_OVER>> \in Changes => game.score_manager.score = 0

\* C16, amended: every change of state is one of those, or Paused->MainMenu
\* (the Main Menu button of the pause screen).
C16_TransitionsAndLeave ==
    /\ (ticks = 0 /\ process.n = 1) => game.state = MAIN_MENU
    /\ Changes \subseteq Listed \cup {<<PAUSED, MAIN_MENU>>}
    /\ <<PLAYING, GAME_OVER>> \in Changes => game.score_manager.score = 0
C16_LeftFromPause ==
    /\ frame.before = PAUSED
    /\ Changes = {<<PAUSED, MAIN_MENU>>}
    /\ game.state = MAIN_MENU
    /\ game.score_manager.score < STARTING_SCORE

\* what a session holds
Session(g) ==
    [score |-> g.score_manager.score, combo |-> g.score_manager.combo,
     combo_timer |-> g.score_manager.combo_timer,
     falling_objects |-> g.falling_objects, powerups |-> g.powerups,
     active_powerup |-> g.active_powerup, powerup_timer |-> g.powerup_timer,
     object_speed |-> <<g.object_speed, g.object_speed_err>>,
     spawn_delay |-> g.spawn_delay, difficulty_timer |-> g.difficulty_timer,
     objects_caught |-> g.objects_caught, objects_missed |-> g.objects_missed]

\* C17: a frame whose state after the input handling is not Playing leaves
\* the score, the combo and its countdown, the live objects and power-ups,
\* the active power-up and its time left, the fall speed, the spawn delay,
\* the difficulty timer and the catch and miss counters as they were; so a
\* session is resumed from a pause with what it held when it was paused.
C17_OnlyPlayingUpdates ==
    [][frame'.after_input # PLAYING => Session(game') = Session(game)]_vars
C17_HeldInPause ==
    /\ frame.before = PAUSED
    /\ game.state = PAUSED
    /\ Len(game.falling_objects) > 0
    /\ game.score_manager.score < STARTING_SCORE
    /\ game.objects_missed > 0

\* C18: the step that takes the game from Playing to GameOver adds 1 to
\* games_played, the session's catch and miss counters to objects_caught
\* and objects_missed and the final score to total_score, makes best_combo
\* the larger of the stored one and the session's, and writes the high
\* score to its file; no other step changes any of these statistics.
C18_SessionSnapshot ==
    [][LET st == game.stats_manager.stats
           st1 == game'.stats_manager.stats
       IN IF frame'.after_input = PLAYING /\ game'.state = GAME_OVER
          THEN /\ st1.games_played = st.games_played + 1
               /\ st1.objects_caught = st.objects_caught + game'.objects_caught
               /\ st1.objects_missed = st.objects_missed + game'.objects_missed
               /\ st1.total_score = st.total_score + game'.score_manager.score
               /\ st1.best_combo = IF st.best_combo >= game'.score_manager.best_combo
                                   THEN st.best_combo
                                   ELSE game'.score_manager.best_combo
               /\ game'.highscore_file = game'.score_manager.high_score
          ELSE /\ st1.games_played = st.games_played
               /\ st1.objects_caught = st.objects_caught
               /\ st1.objects_missed = st.objects_missed
               /\ st1.total_score = st.total_score
               /\ st1.best_combo = st.best_combo]_vars
C18_SecondSessionRecorded ==
    /\ game.state = GAME_OVER
    /\ frame.after_input = PLAYING
    /\ game.stats_manager.stats.games_played = 2
    /\ game.stats_manager.stats.objects_caught > game.objects_caught
    /\ game.stats_manager.stats.objects_missed > game.objects_missed
    /\ game.objects_missed > 0
    /\ game.stats_manager.stats.best_combo > game.score_manager.best_combo
    /\ game.highscore_file = game.score_manager.high_score
    /\ game.highscore_file > STARTING_SCORE

C20_SavedOnQuit ==
    ~game.running => _load_high_score(game.highscore_file) = game.score_manager.high_score

\* C21: starting a session, with Start Game from the main menu or Play Again
\* from game over, sets every session variable to its default (score
\* STARTING_SCORE, combo 0, best combo 0, combo countdown inactive, no live
\* object or power-up, no active power-up, fall speed OBJECT_BASE_SPEED,
\* spawn delay OBJECT_SPAWN_DELAY, difficulty timer 0, catch and miss
\* counters 0) and leaves the high score and the statistics record as they
\* were before the frame.
SessionDefaults(g) ==
    /\ g.score_manager.score = STARTING_SCORE
    /\ g.score_manager.combo = 0
    /\ g.score_manager.best_combo = 0
    /\ g.score_manager.combo_timer = 0
    /\ ~g.score_manager.is_combo_active
    /\ g.falling_objects = <<>>
    /\ g.powerups = <<>>
    /\ g.active_powerup = None
    /\ g.powerup_timer = 0
    /\ g.object_speed = Milli(OBJECT_BASE_SPEED)
    /\ g.object_speed_err = 0
    /\ g.spawn_delay = OBJECT_SPAWN_DELAY
    /\ g.difficulty_timer = 0
    /\ g.objects_caught = 0
    /\ g.objects_missed = 0
C22_ResolvedOnce ==
    frame.spawned = Len(game.falling_objects) + game.objects_caught
                        + game.objects_missed
\* a session with a catch counted, a bomb hit and a miss counted, and an
\* object still falling
C22_AllOutcomes ==
    /\ game.objects_caught >= 1
    /\ game.objects_missed >= 2
    /\ Len(game.falling_objects) >= 1
    /\ \E i \in 1..Len(history) : history[i].kind = "bomb"
    /\ \E i \in 1..Len(history) : history[i].kind = "miss"

\* C23: loading is non-fatal whatever the file holds: constructing a manager
\* on a high-score, statistics or settings file that is missing, cannot be
\* read, does not parse, or parses to the wrong shape (JSON that is not an
\* object) raises nothing and gives the defaults (high score 0, the default
\* settings, zeroed statistics).
Defaults(kind) ==
    CASE kind = "score" -> [high_score |-> PyInt(0)]
      [] kind = "statistics" -> default_stats
      [] kind = "settings" -> default_settings
Unusable(kind, f) ==
    \/ ~f.exists
    \/ ~f.readable
    \/ kind = "score" /\ f.text.form # "int"
    \/ kind # "score" /\ f.text.form # "object"
C23_LoadNeverFails ==
    (store.op = "construct" /\ Unusable(store.kind, store.file)) =>
        /\ store.raised = "none"
        /\ store.up
        /\ store.mem = Defaults(store.kind)

\* C24: a failed write of the high score, the statistics or the settings
\* raises nothing to the caller and leaves the manager's values exactly as
\* they were when save was called; a save that succeeds, also after failed
\* ones, leaves the file holding the manager's current values.
FileOf(kind, d) ==
    IF kind = "score" THEN IntText(d.high_score.n) ELSE ObjectText(d)
C24_FailedWriteHarmless ==
    /\ store.io \in {"open_fails", "write_fails"} =>
          /\ store.raised = "none"
          /\ store.up
          /\ store.mem = store.pre
    /\ store.io = "ok" =>
          /\ store.raised = "none"
          /\ store.mem = store.pre
          /\ store.file.exists
          /\ store.file.text = FileOf(store.kind, store.mem)
\* a save that succeeded after two that failed, of values the failed saves
\* did not get to the file
C24_SavedAfterFailures ==
    /\ store.io = "ok"
    /\ store.fails >= 2
    /\ store.mem # store.before
    /\ store.file.text = FileOf(store.kind, store.mem)

\* C25: round trip. When set, toggle or end_session has saved the manager's
\* dictionary and a new manager is then constructed on the file, the new
\* manager holds the same value under every recognized key; and whenever a
\* manager is constructed on a file that holds a JSON object, a recognized
\* key that the object lacks has its default value.
Recognized(kind) == DOMAIN Defaults(kind)
C25_RoundTrip ==
    /\ [][(/\ store'.op = "construct"
           /\ store.kind \in {"settings", "statistics"}
           /\ store.synced
           /\ store.file.readable)
          => /\ store'.raised = "none"
             /\ \A k \in Recognized(store.kind) : store'.mem[k] = store.mem[k]]_vars
    /\ [](( /\ store.op = "construct"
            /\ store.kind \in {"settings", "statistics"}
            /\ store.file.exists /\ store.file.readable
            /\ store.file.text.form = "object")
          => /\ store.raised = "none"
             /\ \A k \in Recognized(store.kind) \ DOMAIN store.file.text.members :
                   store.mem[k] = Defaults(store.kind)[k])
\* settings changed by set and by toggle, saved, and loaded again by a new
\* manager from a file that lacked most keys when the first manager started
C25_Reloaded ==
    /\ store.op = "construct"
    /\ store.kind = "settings"
    /\ store.synced
    /\ store.n = 4
    /\ store.mem.sound_volume = PyFloat(5)
    /\ "vsync" \in DOMAIN store.mem
    /\ store.mem.show_fps = PyBool(TRUE)
    /\ store.mem = store.before

\* C26: the basket stays within the screen: after any sequence of
\* Basket.update calls, with any keys held and any dt >= 0,
\* 0 <= basket.x <= SCREEN_WIDTH - basket.width, and basket.y never changes.
C26_BasketOnScreen ==
    /\ [](ent.n >= 1 =>
            /\ 0 <= ent.obj.x
            /\ ent.obj.x <= (SCREEN_WIDTH - ent.obj.width) * Px)
    /\ [][ent'.obj.y = ent.obj.y]_vars
\* a basket stopped at the right edge in its fourth call, a long frame with
\* a right key down
C26_StoppedAtRightEdge ==
    /\ ent.kind = "basket"
    /\ ent.n = 4
    /\ ent.arg = 1120
    /\ ent.obj.velocity_x = BASKET_SPEED
    /\ ent.obj.x = (SCREEN_WIDTH - BASKET_WIDTH) * Px

\* C27: an entity is reported off-screen exactly when its y is greater than
\* the screen height (y = SCREEN_HEIGHT + 10 is off-screen, y = 100 is not);
\* so what a Playing tick removes as fallen is below the screen, and no
\* falling object or power-up left live has y > SCREEN_HEIGHT.
Fallen == {i \in 1..Len(log) : log[i].kind \in {"miss", "powerup_off"}}
C27_OffScreen ==
    /\ (ent.kind = "object" /\ ent.n = 1) =>
          (ent.ret <=> ent.obj.y > SCREEN_HEIGHT * Px)
    /\ \A i \in Fallen : log[i].obj.y > SCREEN_HEIGHT * Px
    /\ \A i \in 1..Len(game.falling_objects) :
          game.falling_objects[i].y <= SCREEN_HEIGHT * Px
    /\ \A i \in 1..Len(game.powerups) : game.powerups[i].y <= SCREEN_HEIGHT * Px
\* a tick in which an object and a power-up fell past the screen while
\* another object and another power-up stayed live
C27_BothFellOff ==
    /\ \E i \in Fallen : log[i].kind = "miss"
    /\ \E i \in Fallen : log[i].kind = "powerup_off"
    /\ Len(game.falling_objects) >= 1
    /\ Len(game.powerups) >= 1

\* C28: a particle reports alive exactly while its accumulated age is below
\* its lifetime (lifetime 100 ms: alive after 50 ms, not alive after 150 ms
\* in all), and a particle that has reported not alive is removed by
\* ParticleSystem.update and is never in the list again.
C28_ParticleLife ==
    /\ \A i \in 1..Len(ent.obj.reports) :
          ent.obj.reports[i].alive <=>
              ent.obj.reports[i].p.age < ent.obj.reports[i].p.lifetime
    /\ \A i \in 1..Len(ent.obj.particles) : ent.obj.particles[i].id \notin ent.obj.dead
\* the particle of the tests reporting not alive at 150 ms, after it had
\* reported alive at 50 ms, with a younger particle left in the list
C28_DeadAt150 ==
    /\ ent.kind = "particles"
    /\ ent.arg = 100
    /\ \E i \in 1..Len(ent.obj.reports) :
          /\ ent.obj.reports[i].p.lifetime = 100
          /\ ent.obj.reports[i].p.age = 150
          /\ ~ent.obj.reports[i].alive
    /\ 1 \in ent.obj.dead
    /\ Len(ent.obj.particles) >= 1

\* C29: the derived statistics never fail on empty data: get_average_score
\* returns total_score / games_played, and 0 when games_played = 0;
\* get_catch_rate returns caught / (caught + missed) * 100, and 0 when
\* caught + missed = 0 (500 over 10 games gives 50; 80 caught and 20 missed
\* gives 80).
C29_DerivedStatistics ==
    LET st == store.mem
    IN /\ store.op = "get_average_score" =>
            /\ store.raised = "none"
            /\ IF st.games_played.n = 0 THEN store.ret.num = 0
               ELSE store.ret.num * st.games_played.n
                        = st.total_score.n * store.ret.den
       /\ store.op = "get_catch_rate" =>
            /\ store.raised = "none"
            /\ IF st.objects_caught.n + st.objects_missed.n = 0 THEN store.ret.num = 0
               ELSE store.ret.num * (st.objects_caught.n + st.objects_missed.n)
                        = st.objects_caught.n * 100 * store.ret.den
\* the average asked of a manager constructed without a file: no game
\* played, 0 returned
C29_NoGamesYet ==
    /\ store.op = "get_average_score"
    /\ store.raised = "none"
    /\ ~store.file.exists
    /\ store.mem.games_played.n = 0
    /\ store.ret.num = 0

\* the game without its audio manager
Silent(g) == [g EXCEPT !.audio_manager = AudioManager(FALSE, {})]
\* C30: no gameplay logic depends on the audio: every frame of a run is a
\* FrameStep, and from every state of a run, whichever way its audio came
\* up, every input leaves the same game (state, score, combo, statistics,
\* objects, timers and all the rest but the audio manager itself) as it
\* leaves when the audio has failed. Two runs fed the same inputs, one with
\* its sounds and one with the audio failed, are therefore frame by frame
\* the same.
C30_AudioIndependent ==
    /\ [](\A dt \in AudioInputs.dts, events \in AudioInputs.events,
              mouse \in AudioInputs.mouse, keys \in AudioInputs.keys,
              rnd \in Draws(AudioInputs) \cup {NoDraw} :
            Silent(FrameStep(game, dt, events, mouse, keys, rnd, ticks + dt))
              = FrameStep(Silent(game), dt, events, mouse, keys, rnd, ticks + dt))
    /\ [][\E dt \in AudioInputs.dts, events \in AudioInputs.events,
              mouse \in AudioInputs.mouse, keys \in AudioInputs.keys,
              rnd \in Draws(AudioInputs) \cup {NoDraw} :
            game' = FrameStep(game, dt, events, mouse, keys, rnd, ticks + dt)]_vars
\* a session played to its end by a game whose mixer did not initialize:
\* the frame that ended it asked for no sound that could be played
C30_GameOverWithoutAudio ==
    /\ ~game.audio_manager.enabled
    /\ game.state = GAME_OVER
    /\ frame.before = PLAYING
    /\ game.audio_manager.played = <<>>

\* C31: at every frame boundary the screen and the score agree: in Playing
\* and in Paused the score is above 0, in GameOver it is 0; and self.state
\* becomes GameOver only from Playing, as the last change of a frame whose
\* Playing tick ended with the score at 0.
C31_ScreenAgreesWithScore ==
    /\ game.state \in {PLAYING, PAUSED} => game.score_manager.score > 0
    /\ game.state = GAME_OVER => game.score_manager.score = 0
    /\ \A k \in 1..(Len(frame.path) - 1) :
          (frame.path[k + 1] = GAME_OVER /\ frame.path[k] # GAME_OVER) =>
            /\ frame.path[k] = PLAYING
            /\ k + 1 = Len(frame.path)
            /\ frame.after_input = PLAYING
            /\ game.state = GAME_OVER
            /\ is_game_over(game.score_manager)
\* a session that was down to its last point, ended by the tick that
\* took it
C31_EndedAtZero ==
    /\ frame.before = PLAYING
    /\ frame.after_input = PLAYING
    /\ game.state = GAME_OVER
    /\ game.score_manager.score = 0
    /\ \E i \in 1..Len(history) : history[i].sm.score = 1

\* C32: whatever ScoreManager methods were called, in whatever order, the
\* combo is not negative, best_combo is at least the combo, and the combo
\* countdown is marked active exactly when the combo is above 0.
C32_ComboBookkeeping ==
    /\ sm.combo >= 0
    /\ sm.best_combo >= sm.combo
    /\ sm.is_combo_active <=> sm.combo > 0
\* a countdown that ran out: update_combo_timer found the combo active,
\* and left it at 0 and not active, below the best combo
C32_CountdownRanOut ==
    /\ call.op = "update_combo_timer"
    /\ call.pre.is_combo_active
    /\ call.pre.combo > 0
    /\ sm.combo = 0
    /\ ~sm.is_combo_active
    /\ sm.best_combo > 0

\* the positions in the log of the last tick of the objects that fell off
Misses == {i \in 1..Len(log) : log[i].kind = "miss"}
\* C33: an object that falls off the screen while Shield is the active
\* power-up leaves the score manager as it was (score, combo, countdown),
\* adds 1 to the miss counter and is removed; without Shield the same miss
\* adds 1 to the miss counter, removes the object, takes MISS_PENALTY off
\* the score (not below 0) and resets the combo to 0.
C33_ShieldedMiss ==
    \A i \in Misses :
        /\ log[i].post.missed = log[i].pre.missed + 1
        /\ Len(log[i].post.objs) = Len(log[i].pre.objs) - 1
        /\ \A k \in 1..Len(log[i].post.objs) : log[i].post.objs[k] # log[i].obj
        /\ IF log[i].pre.active = "shield"
           THEN log[i].post.sm = log[i].pre.sm
           ELSE /\ log[i].post.sm.score = Max(0, log[i].pre.sm.score - MISS_PENALTY)
                /\ log[i].post.sm.combo = 0
                /\ ~log[i].post.sm.is_combo_active
\* an object that fell off under the shield while a combo was counting
\* down: the combo and the score outlived the miss
C33_ComboKeptUnderShield ==
    \E i \in Misses :
        /\ log[i].pre.active = "shield"
        /\ log[i].pre.sm.combo > 0
        /\ log[i].pre.sm.combo_timer > 0
        /\ log[i].post.sm.combo = log[i].pre.sm.combo
        /\ log[i].post.missed > 0

\* C34: the score handed to end_session is always 0, a session ending only
\* with the score at 0: a frame that adds a game to games_played ends in
\* GameOver with score 0, and no frame changes total_score.
C34_FinalScoreIsZero ==
    [][LET st == game.stats_manager.stats
           st1 == game'.stats_manager.stats
       IN /\ st1.total_score = st.total_score
          /\ st1.games_played # st.games_played =>
                /\ st1.games_played = st.games_played + 1
                /\ game'.state = GAME_OVER
                /\ game'.score_manager.score = 0]_vars
\* two sessions played to their end, the last with points won on the way
\* (the high score is above the starting score), and nothing added to
\* total_score
C34_NothingAdded ==
    /\ game.state = GAME_OVER
    /\ game.stats_manager.stats.games_played = 2
    /\ game.stats_manager.stats.objects_caught > 0
    /\ game.score_manager.high_score > STARTING_SCORE
    /\ game.stats_manager.stats.total_score = 0

\* C35, as stated: in every state the high score is at least the current
\* score, from start-up on and across session resets, whatever the high
\* score file held when it was loaded.
C35_HighScoreCoversScore ==
    game.score_manager.high_score >= game.score_manager.score

\* how many times x is in seq
RECURSIVE Count(_, _)
Count(seq, x) ==
    IF seq = <<>> THEN 0
    ELSE (IF Head(seq) = x THEN 1 ELSE 0) + Count(Tail(seq), x)
\* C36, as stated: every click edge on a button of the menu shown in the
\* frame calls that button's callback exactly once in that frame, whatever
\* was clicked and whatever the state was before.
C36_EveryClickCounts ==
    \A id \in frame.clicked_on : Count(game.invoked, id) = 1

\* C37, as stated: a tick spawns a falling object only when more than
\* spawn_delay milliseconds of Playing time have passed since the spawn
\* before it in the session (time spent in Paused not counted); a tick
\* spawns at most one falling object; and a power-up is spawned only in a
\* tick that spawns a falling object. The objects and power-ups a frame
\* spawned are counted on the lists: what is live after it and what it
\* resolved, less what was live before (after the reset, in a frame that
\* starts a session).
C37_SpawnCadence ==
    /\ [](frame.spawn_gap # -1 => frame.spawn_gap > game.spawn_delay)
    /\ [][LET base == IF frame'.started # <<>> THEN frame'.started[1] ELSE game
              objs == Len(game'.falling_objects)
                        + (game'.objects_caught - base.objects_caught)
                        + (game'.objects_missed - base.objects_missed)
                        - Len(base.falling_objects)
              pus == Len(game'.powerups)
                        + Cardinality({i \in 1..Len(log') :
                                         log'[i].kind \in {"powerup", "powerup_off"}})
                        - Len(base.powerups)
          IN /\ objs \in {0, 1}
             /\ pus >= 1 => objs = 1]_vars

\* the rectangle of obj and the basket's overlap horizontally
AboveBasket(obj, bx) ==
    /\ ObjectRect(obj).x < BasketRect(bx).x + BASKET_WIDTH
    /\ ObjectRect(obj).x + OBJECT_WIDTH > BasketRect(bx).x
\* C38: no tunnelling. Where every tick moves an object by 15 pixels at
\* most, an object that comes down above the basket is never counted as an
\* off-screen miss: every object that fell off was beside the basket, and
\* every object above the basket that is still live at the end of a tick
\* has not reached the basket's upper edge yet (the collision pass of the
\* tick in which it reaches it resolves it, as a catch or a bomb hit), so
\* that the miss counter grows by bomb hits only.
C38_NoTunnelling ==
    (\A k \in 1..Len(game.falling_objects) :
        Fall(game.falling_objects[k].speed, SpeedMultiplier(game), frame.dt) <= 15 * Px) =>
      /\ \A i \in Misses : ~AboveBasket(log[i].obj, game.basket_x)
      /\ \A k \in 1..Len(game.falling_objects) :
            AboveBasket(game.falling_objects[k], game.basket_x) =>
                ObjectRect(game.falling_objects[k]).y + OBJECT_HEIGHT
                    <= BasketRect(game.basket_x).y
      /\ (\A i \in 1..Len(log) : AboveBasket(log[i].obj, game.basket_x)) =>
            game.objects_missed
                = Cardinality({j \in 1..Len(history) : history[j].kind = "bomb"})
\* a red object caught by a tick of 15 pixels that took it from above the
\* basket's upper edge to below it, while two more objects are coming down
C38_CaughtStepByStep ==
    /\ \E i \in 1..Len(log) :
          /\ log[i].kind = "catch"
          /\ Fall(log[i].obj.speed, 2, frame.dt) = 15 * Px
          /\ AboveBasket(log[i].obj, game.basket_x)
          /\ ObjectRect(log[i].obj).y + OBJECT_HEIGHT > BasketRect(game.basket_x).y
          /\ ObjectRect(log[i].obj).y + OBJECT_HEIGHT - 15 <= BasketRect(game.basket_x).y
    /\ Len(game.falling_objects) = 2
    /\ game.objects_missed = 0

\* the power-ups that fell off the screen in the session
PowerUpsOff ==
    Cardinality({j \in 1..Len(history) : history[j].kind = "powerup_off"})
\* a live list keeps nothing that is below the screen, and holds what was
\* spawned earlier lower down: what leaves it off-screen leaves it from
\* the front
OldestFirst(seq) ==
    /\ \A i \in 1..Len(seq) : ~is_off_screen(seq[i])
    /\ \A i, j \in 1..Len(seq) : i < j => seq[i].y > seq[j].y
====
